---------------------------- MODULE Spec2Model ----------------------------
(***************************************************************************)
(* A model of the decision-and-simulated-execution pipeline of             *)
(* solana-hyper-bot3: the LogicGate filter, the HyperEnsemble consensus    *)
(* voter and the cycle orchestrators (LiveBot, Backtest).                  *)
(*                                                                         *)
(* Number representation.  The program computes with Python floats; the    *)
(* model computes with exact integers and exact fractions:                 *)
(*   - a score, confidence or fraction in [0,1] is an integer number of    *)
(*     hundredths (0.7 is 70), written "x100" below;                      *)
(*   - latency (ms), volume, prices and the percent thresholds are         *)
(*     integers;                                                           *)
(*   - a quotient the program computes is kept as a fraction               *)
(*     [num |-> n, den |-> d] with d > 0 and compared by                   *)
(*     cross-multiplication, so no rounding is introduced.                 *)
(* The LeverageEngine and the PaperTrader multiply amounts of money; there  *)
(* the model uses fixed-point integers, as described at their definitions. *)
(* Floating-point rounding itself is outside the model.                    *)
(***************************************************************************)
EXTENDS Integers, Sequences, FiniteSets, TLC

VARIABLES
    \* ---- LogicGate (src/src/core/logic_gate.py)
    gateCfg,        \* the thresholds given to LogicGate.__init__
    gateSnap,       \* the MarketState of the last check() call
    gateResult,     \* what the last check() call returned
    gatePc,         \* "idle" before the first call, "checked" after a call
    \* ---- HyperEnsemble (src/src/core/hyper_ensemble.py)
    ensN,           \* len(self.engines); the engines are named 1..ensN in
                    \* registration (dict insertion) order
    ensMinConf,     \* self.min_confidence, x100
    ensPc,          \* "idle" | "collect" (run's for loop) | "gather"
                    \* (run_async awaiting asyncio.gather) | "done"
    ensCall,        \* the entry point of the call in progress
    ensOverride,    \* run_and_assert's min_confidence argument, or None
    ensIdx,         \* run: the engine the for loop invokes next
    ensOutcome,     \* per engine, what its invocation in this call did:
                    \* NotRun, Failed, or the Action it returned
    ensVotes,       \* run: the votes dict, as the sequence of its items
    ensDecision,    \* the Decision the call returned (NoDecision before)
    ensRaised,      \* TRUE iff the call ended by an exception instead
    \* ---- the orchestrators (src/src/live_bot.py, src/src/simulation/backtest.py)
    orch,           \* "live" (LiveBot.run_loop) | "backtest" (Backtest.run)
    cycPc,          \* where the orchestrator stands (see the actions)
    cycIter,        \* run_loop's `iteration` / Backtest.run's bar index i
    cycLimit,       \* run_loop's `iterations` argument / len(bars)
    cycMinConf,     \* the min_confidence the orchestrator passes on, x100
    cycSnap,        \* market_state of the cycle (NoSnapshot before a fetch)
    cycStatus,      \* "status" of the last result the orchestrator built
    levCapital,     \* LeverageEngine.current_capital
    paper,          \* the PaperTrader's fields
    bot,            \* the LiveBot's own fields
    botCfg,         \* what the LiveBot was constructed with
    \* ---- history of the cycle in progress (not program state)
    cycGateCalls,   \* calls of logic_gate.check in this cycle
    cycEngineCalls, \* engine invocations in this cycle
    cycOpened,      \* trades opened in this cycle
    cycAllBlocked,  \* TRUE while every gate check of the run has blocked
    \* ---- OnflowEngine (src/src/core/onflow_engine.py)
    onf,            \* the engine's fields
    onfPc,          \* "idle" | "suggested" (suggest_allocation has returned)
    onfSnap,        \* market_state.volatility of the last suggest_allocation
    onfResult,      \* what the last suggest_allocation returned
    \* ---- MDPDecision (src/src/core/mdp_decision.py)
    q_table,        \* state hash -> (action type -> value), visited hashes only
    mdpUpdates,     \* number of update calls made
    mdpLast,        \* the last update call: arguments, old and new value
    \* ---- LeverageEngine on its own (src/src/execution/leverage_engine.py)
    lev,            \* the engine: config and current_capital
    levCall,        \* the last call made on it: arguments and result
    \* ---- PaperTrader on its own (src/src/simulation/paper_trader.py)
    trader,         \* the PaperTrader
    ptSteps,        \* number of calls that changed it
    ptLog,          \* per trade: when and on which snapshots it was opened
                    \* and closed, and the capital before and after
    \* ---- TWAPExecutor (src/src/execution/twap_executor.py)
    twap,           \* the executor's fields and the locals of its execute call
    \* ---- JupiterQuoteClient (src/src/adapters/jupiter_quote_client.py)
    jup,            \* the client's max_retries and the get_quote call
    \* ---- the metrics file and tools/health_check.py
    health,         \* the file's content and the last check's outcome
    \* ---- MarketSimulator (src/src/simulation/market_simulator.py)
    msim,           \* the simulator's run
    \* ---- MarketState construction (src/src/core/types.py)
    mstate          \* the last MarketState(...) call: arguments and outcome

gateVars == <<gateCfg, gateSnap, gateResult, gatePc>>

ensVars == <<ensN, ensMinConf, ensPc, ensCall, ensOverride, ensIdx,
             ensOutcome, ensVotes, ensDecision, ensRaised>>

cycVars == <<orch, cycPc, cycIter, cycLimit, cycMinConf, cycSnap, cycStatus,
             levCapital, paper, bot, botCfg,
             cycGateCalls, cycEngineCalls, cycOpened, cycAllBlocked>>

onfVars == <<onf, onfPc, onfSnap, onfResult>>

\* The components that take no part in the gate, ensemble and orchestrator
\* specifications
mdpVars == <<q_table, mdpUpdates, mdpLast>>

levVars == <<lev, levCall>>

ptVars == <<trader, ptSteps, ptLog>>

\* The executors, adapters and tools that stand apart from the pipeline
extVars == <<twap, jup, health, msim, mstate>>

auxVars == <<onfVars, mdpVars, levVars, ptVars, extVars>>

coreVars == <<gateVars, ensVars, cycVars, onfVars, mdpVars, levVars, ptVars>>

vars == <<gateVars, ensVars, cycVars, auxVars>>

-----------------------------------------------------------------------------
(* Enums of src/src/core/types.py *)

LONG == "long"
SHORT == "short"
HOLD == "hold"
EXIT == "exit"
REDUCE == "reduce"
ActionType == {LONG, SHORT, HOLD, EXIT, REDUCE}

APPROVED == "approved"
BLOCKED == "blocked"
PENDING == "pending"
DecisionStatus == {APPROVED, BLOCKED, PENDING}

HIGH_MEV_RISK == "high_mev_risk"
HIGH_LATENCY == "high_latency"
PRICE_JUMP == "price_jump"
EMA_DEVIATION == "ema_deviation"
LOW_VOLUME == "low_volume"
LOW_CONFIDENCE == "low_confidence"
CIRCUIT_BREAKER == "circuit_breaker"
MAX_LOSS_EXCEEDED == "max_loss_exceeded"
BlockReason == {HIGH_MEV_RISK, HIGH_LATENCY, PRICE_JUMP, EMA_DEVIATION,
                LOW_VOLUME, LOW_CONFIDENCE, CIRCUIT_BREAKER, MAX_LOSS_EXCEEDED}

\* Python's None for the Optional[float] fields of MarketState (ema_short,
\* ema_long).  Every EMA the repository produces is a validated price (> 0),
\* so the sentinel is outside the value range.
None == -1

\* An Optional[float] field whose value may be any number: None is <<>>, a
\* field holding v is <<v>>
NoValue == <<>>

-----------------------------------------------------------------------------
(* Helpers *)

Abs(x) == IF x < 0 THEN -x ELSE x

Range(s) == {s[i] : i \in 1..Len(s)}

\* list.append(x) when the condition holds, the list unchanged otherwise
AppendIf(s, cond, x) == IF cond THEN Append(s, x) ELSE s

-----------------------------------------------------------------------------
(* LogicGate *)

\* LogicGate.__init__ defaults
DefaultGateConfig ==
    [mev_risk_threshold    |-> 70,      \* 0.7, x100
     max_latency_ms        |-> 500,
     max_price_jump_pct    |-> 5,
     max_ema_deviation_pct |-> 10,
     min_volume_24h        |-> 100000]

\* The gate configurations the model is run with: the defaults, and a
\* stricter gate (every threshold is a constructor argument).
GateConfigs ==
    {DefaultGateConfig,
     [mev_risk_threshold    |-> 50,
      max_latency_ms        |-> 100,
      max_price_jump_pct    |-> 2,
      max_ema_deviation_pct |-> 5,
      min_volume_24h        |-> 200000]}

\* The snapshots the model feeds the gate: values on, just below and just
\* above each threshold of both configurations.  Only the fields check()
\* reads are kept.  price > 0 is MarketState's own validation; an EMA is
\* absent or a positive price.
MevScores == {0, 50, 51, 70, 71, 100}
Latencies == {0, 100, 101, 500, 501}
Volumes == {0, 99999, 100000, 200000}
Prices == {95, 100, 105, 106}
EmaShorts == {None, 100, 90}
EmaLongs == {None, 100, 95, 80}

Snapshots ==
    [mev_risk_score : MevScores,
     latency_ms     : Latencies,
     volume_24h     : Volumes,
     price          : Prices,
     ema_short      : EmaShorts,
     ema_long       : EmaLongs]

\* abs((a - b) / b * 100) > limit, in exact arithmetic (b # 0)
PctDeviationExceeds(a, b, limit) == Abs(a - b) * 100 > limit * Abs(b)

\* LogicGate.check with the price-jump rule written without abs(): a jump
\* downwards is then never seen.
check_no_abs(cfg, ms) ==
    LET r1 == AppendIf(<<>>, ms.mev_risk_score > cfg.mev_risk_threshold, HIGH_MEV_RISK)
        r2 == AppendIf(r1, ms.latency_ms > cfg.max_latency_ms, HIGH_LATENCY)
        r3 == AppendIf(r2, ms.volume_24h < cfg.min_volume_24h, LOW_VOLUME)
        r4 == AppendIf(r3, /\ ms.ema_short # None
                           /\ (ms.price - ms.ema_short) * 100
                                > cfg.max_price_jump_pct * ms.ema_short,
                       PRICE_JUMP)
        r5 == AppendIf(r4, /\ ms.ema_short # None
                           /\ ms.ema_long # None
                           /\ PctDeviationExceeds(ms.ema_short, ms.ema_long,
                                                  cfg.max_ema_deviation_pct),
                       EMA_DEVIATION)
    IN  [allowed |-> Len(r5) = 0, reasons |-> r5]

\* LogicGate.check returning at the first violated rule.
check_first_only(cfg, ms) ==
    LET r == IF ms.mev_risk_score > cfg.mev_risk_threshold THEN <<HIGH_MEV_RISK>>
             ELSE IF ms.latency_ms > cfg.max_latency_ms THEN <<HIGH_LATENCY>>
             ELSE IF ms.volume_24h < cfg.min_volume_24h THEN <<LOW_VOLUME>>
             ELSE IF /\ ms.ema_short # None
                     /\ PctDeviationExceeds(ms.price, ms.ema_short,
                                            cfg.max_price_jump_pct)
                  THEN <<PRICE_JUMP>>
             ELSE IF /\ ms.ema_short # None
                     /\ ms.ema_long # None
                     /\ PctDeviationExceeds(ms.ema_short, ms.ema_long,
                                            cfg.max_ema_deviation_pct)
                  THEN <<EMA_DEVIATION>>
             ELSE <<>>
    IN  [allowed |-> Len(r) = 0, reasons |-> r]

\* LogicGate.check: the rules are evaluated in this order, each appending
\* its reason to block_reasons; allowed = (len(block_reasons) == 0).
check(cfg, ms) ==
    LET r1 == AppendIf(<<>>, ms.mev_risk_score > cfg.mev_risk_threshold, HIGH_MEV_RISK)
        r2 == AppendIf(r1, ms.latency_ms > cfg.max_latency_ms, HIGH_LATENCY)
        r3 == AppendIf(r2, ms.volume_24h < cfg.min_volume_24h, LOW_VOLUME)
        r4 == AppendIf(r3, /\ ms.ema_short # None
                           /\ PctDeviationExceeds(ms.price, ms.ema_short,
                                                  cfg.max_price_jump_pct),
                       PRICE_JUMP)
        r5 == AppendIf(r4, /\ ms.ema_short # None
                           /\ ms.ema_long # None
                           /\ PctDeviationExceeds(ms.ema_short, ms.ema_long,
                                                  cfg.max_ema_deviation_pct),
                       EMA_DEVIATION)
    IN  [allowed |-> Len(r5) = 0, reasons |-> r5]

\* The snapshot of test_logic_gate_allows_low_mev_risk, with the model's values
PassingSnapshot ==
    [mev_risk_score |-> 50, latency_ms |-> 100, volume_24h |-> 200000,
     price |-> 100, ema_short |-> 100, ema_long |-> 100]

GateInit ==
    /\ gateCfg \in GateConfigs
    /\ gateSnap = PassingSnapshot
    /\ gateResult = [allowed |-> TRUE, reasons |-> <<>>]
    /\ gatePc = "idle"

\* One call of LogicGate.check(ms).
GateCheck ==
    \E ms \in Snapshots :
        /\ gatePc = "idle"
        /\ gateSnap' = ms
        /\ gateResult' = check(gateCfg, ms)
        /\ gatePc' = "checked"
        /\ UNCHANGED gateCfg

\* The caller drops the result: the gate keeps no state between calls, so
\* the next call starts from the state the constructor left.
GateReturn ==
    /\ gatePc = "checked"
    /\ gateSnap' = PassingSnapshot
    /\ gateResult' = [allowed |-> TRUE, reasons |-> <<>>]
    /\ gatePc' = "idle"
    /\ UNCHANGED gateCfg

-----------------------------------------------------------------------------
(* HyperEnsemble *)

\* The most engines the model registers
MaxEngines == 3

\* HyperEnsemble.min_confidence values the model constructs the ensemble
\* with (x100); 75 is the constructor's default
DefaultMinConfidence == 75
MinConfidences == {50, DefaultMinConfidence}

\* The min_confidence arguments the model passes to run_and_assert
Overrides == {None, 60, 90}

\* What the model's engines return: an Action of one of these kinds with one
\* of these confidences (x100, inside Action's validated range 0..100) and
\* Action's default size_fraction (0.0) and leverage (1.0)
VoteKinds == {LONG, SHORT, HOLD}
VoteConfidences == {0, 30, 50, 100}
EngineActions ==
    [action_type : VoteKinds, confidence : VoteConfidences,
     size_fraction : {0}, leverage : {1}]

NotRun == [outcome |-> "not_run"]
Failed == [outcome |-> "failed"]
Hung == [outcome |-> "hung"]
Voted(a) == [outcome |-> "voted", action |-> a]

NoDecision == [status |-> "none"]

Frac(n, d) == [num |-> n, den |-> d]

\* a fraction compared with a number of hundredths
FracLess(f, x100) == f.num * 100 < x100 * f.den
FracGeq(f, x100) == f.num * 100 >= x100 * f.den

\* The items of a votes dict are records [name, action]; these fold over them.
RECURSIVE SumConfidence(_)
SumConfidence(votes) ==
    IF votes = <<>> THEN 0
    ELSE votes[1].action.confidence + SumConfidence(Tail(votes))

RECURSIVE SumSize(_)
SumSize(votes) ==
    IF votes = <<>> THEN 0
    ELSE votes[1].action.size_fraction + SumSize(Tail(votes))

RECURSIVE SumLeverage(_)
SumLeverage(votes) ==
    IF votes = <<>> THEN 0
    ELSE votes[1].action.leverage + SumLeverage(Tail(votes))

\* [v for v in votes.values() if v.action_type == kind]
MatchingVotes(votes, kind) ==
    SelectSeq(votes, LAMBDA v : v.action.action_type = kind)

\* The keys of action_scores in insertion order: each kind at the place of
\* its first vote
RECURSIVE ScoreKeys(_, _)
ScoreKeys(votes, seen) ==
    IF votes = <<>> THEN <<>>
    ELSE LET k == votes[1].action.action_type
         IN  IF k \in seen THEN ScoreKeys(Tail(votes), seen)
             ELSE <<k>> \o ScoreKeys(Tail(votes), seen \cup {k})

\* action_scores[kind]
Score(votes, kind) == SumConfidence(MatchingVotes(votes, kind))

\* BestActionType keeping the last maximal key instead of the first (>= for >)
RECURSIVE LastMax(_, _, _)
LastMax(keys, votes, best) ==
    IF keys = <<>> THEN best
    ELSE LastMax(Tail(keys), votes,
                 IF Score(votes, keys[1]) >= Score(votes, best)
                 THEN keys[1] ELSE best)

BestActionType_last(votes) ==
    LET keys == ScoreKeys(votes, {})
    IN  LastMax(Tail(keys), votes, keys[1])

\* max(action_scores, key=action_scores.get): Python's max returns the
\* first key, in iteration order, whose value is maximal
RECURSIVE FirstMax(_, _, _)
FirstMax(keys, votes, best) ==
    IF keys = <<>> THEN best
    ELSE FirstMax(Tail(keys), votes,
                  IF Score(votes, keys[1]) > Score(votes, best)
                  THEN keys[1] ELSE best)

BestActionType(votes) ==
    LET keys == ScoreKeys(votes, {})
    IN  FirstMax(Tail(keys), votes, keys[1])

AggregateWith(votes, zero, cc) ==
    IF zero
    THEN [action |-> [action_type |-> HOLD, confidence |-> Frac(0, 1),
                      size_fraction |-> Frac(0, 1), leverage |-> Frac(1, 1)],
          confidence |-> Frac(0, 1)]
    ELSE LET best == BestActionType(votes)
             matching == MatchingVotes(votes, best)
         IN  [action |-> [action_type |-> best, confidence |-> cc,
                          size_fraction |-> Frac(SumSize(matching), Len(matching)),
                          leverage |-> Frac(SumLeverage(matching), Len(matching))],
              confidence |-> cc]

\* _aggregate_votes without the normalisation: the winning kind's summed
\* confidence itself
aggregate_votes_sum(votes) ==
    AggregateWith(votes, SumConfidence(votes) = 0,
                  Frac(Score(votes, BestActionType(votes)), 100))

\* _aggregate_votes averaging over the votes instead of normalising by the
\* total confidence
aggregate_votes_mean(votes) ==
    AggregateWith(votes, SumConfidence(votes) = 0,
                  Frac(Score(votes, BestActionType(votes)), 100 * Len(votes)))

\* _aggregate_votes returning HOLD as soon as any vote has confidence 0
aggregate_votes_any_zero(votes) ==
    AggregateWith(votes, \E i \in 1..Len(votes) : votes[i].action.confidence = 0,
                  Frac(Score(votes, BestActionType(votes)), SumConfidence(votes)))

\* HyperEnsemble._aggregate_votes: (consensus_action, consensus_confidence)
aggregate_votes(votes) ==
    LET total_confidence == SumConfidence(votes)
    IN  IF total_confidence = 0
        THEN [action |-> [action_type |-> HOLD, confidence |-> Frac(0, 1),
                          size_fraction |-> Frac(0, 1), leverage |-> Frac(1, 1)],
              confidence |-> Frac(0, 1)]
        ELSE LET best == BestActionType(votes)
                 cc == Frac(Score(votes, best), total_confidence)
                 matching == MatchingVotes(votes, best)
             IN  [action |-> [action_type |-> best, confidence |-> cc,
                              size_fraction |-> Frac(SumSize(matching), Len(matching)),
                              leverage |-> Frac(SumLeverage(matching), Len(matching))],
                  confidence |-> cc]

\* The no-vote Decision left PENDING instead of BLOCKED
NoVotesDecision_pending ==
    [status |-> PENDING,
     action |-> [action_type |-> HOLD, confidence |-> Frac(0, 1),
                 size_fraction |-> Frac(0, 1), leverage |-> Frac(1, 1)],
     consensus_confidence |-> Frac(0, 1),
     block_reasons |-> <<>>,
     engine_votes |-> <<>>]

\* The Decision run and run_async build when no vote is left (no engine
\* registered, or every engine failed)
NoVotesDecision ==
    [status |-> BLOCKED,
     action |-> [action_type |-> HOLD, confidence |-> Frac(0, 1),
                 size_fraction |-> Frac(0, 1), leverage |-> Frac(1, 1)],
     consensus_confidence |-> Frac(0, 1),
     block_reasons |-> <<LOW_CONFIDENCE>>,
     engine_votes |-> <<>>]

\* The tail of run and of run_async, from the collected votes to the
\* Decision
DecisionOf(votes, min_confidence) ==
    IF votes = <<>> THEN NoVotesDecision
    ELSE LET agg == aggregate_votes(votes)
             status == IF FracGeq(agg.confidence, min_confidence)
                       THEN APPROVED ELSE BLOCKED
         IN  [status |-> status,
              action |-> agg.action,
              consensus_confidence |-> agg.confidence,
              block_reasons |-> IF status = APPROVED THEN <<>>
                                ELSE <<LOW_CONFIDENCE>>,
              engine_votes |-> votes]

\* run_and_assert appending LOW_CONFIDENCE without looking for it first
assert_threshold_append_always(decision, override, min_confidence) ==
    LET threshold == IF override # None THEN override ELSE min_confidence
    IN  IF FracLess(decision.consensus_confidence, threshold)
        THEN [decision EXCEPT
                !.status = BLOCKED,
                !.block_reasons = Append(@, LOW_CONFIDENCE)]
        ELSE decision

\* run_and_assert blocking below the threshold without recording a reason
assert_threshold_silent(decision, override, min_confidence) ==
    LET threshold == IF override # None THEN override ELSE min_confidence
    IN  IF FracLess(decision.consensus_confidence, threshold)
        THEN [decision EXCEPT !.status = BLOCKED]
        ELSE decision

\* run_and_assert, after its call of run returned `decision`
assert_threshold(decision, override, min_confidence) ==
    LET threshold == IF override # None THEN override ELSE min_confidence
    IN  IF FracLess(decision.consensus_confidence, threshold)
        THEN [decision EXCEPT
                !.status = BLOCKED,
                !.block_reasons =
                    AppendIf(@, LOW_CONFIDENCE \notin Range(@), LOW_CONFIDENCE)]
        ELSE decision

\* What the entry point `call` returns for the votes run collected
ReturnOf(call, votes, override, min_confidence) ==
    IF call = "run_and_assert"
    THEN assert_threshold(DecisionOf(votes, min_confidence), override,
                          min_confidence)
    ELSE DecisionOf(votes, min_confidence)

Engines == 1..ensN

\* The votes taken in the reverse of the engines' order
RECURSIVE GatheredVotes_reversed(_, _, _)
GatheredVotes_reversed(outcome, i, n) ==
    IF i > n THEN <<>>
    ELSE GatheredVotes_reversed(outcome, i + 1, n)
         \o (IF outcome[i].outcome = "voted"
             THEN <<[name |-> i, action |-> outcome[i].action]>> ELSE <<>>)

\* votes = {name: action for name, action in results if action is not None}:
\* asyncio.gather returns the results in the order of self.engines.items()
RECURSIVE GatheredVotes(_, _, _)
GatheredVotes(outcome, i, n) ==
    IF i > n THEN <<>>
    ELSE (IF outcome[i].outcome = "voted"
          THEN <<[name |-> i, action |-> outcome[i].action]>> ELSE <<>>)
         \o GatheredVotes(outcome, i + 1, n)

EnsInit ==
    /\ ensN = 0
    /\ ensMinConf \in MinConfidences
    /\ ensPc = "idle"
    /\ ensCall = "none"
    /\ ensOverride = None
    /\ ensIdx = 0
    /\ ensOutcome = <<>>
    /\ ensVotes = <<>>
    /\ ensDecision = NoDecision
    /\ ensRaised = FALSE

\* add_engine(name, engine) with a new name.  (With a name already present
\* the dict keeps the key's place and only the callable changes; the model's
\* engines are any callable, so that leaves the model's state as it is.)
AddEngine ==
    /\ ensPc = "idle"
    /\ ensN < MaxEngines
    /\ ensN' = ensN + 1
    /\ UNCHANGED <<ensMinConf, ensPc, ensCall, ensOverride, ensIdx,
                   ensOutcome, ensVotes, ensDecision, ensRaised>>

\* run / run_and_assert up to the for loop: with no engine registered run
\* returns at once
BeginRun(call, override) ==
    /\ ensCall' = call
    /\ ensOverride' = override
    /\ ensOutcome' = [i \in Engines |-> NotRun]
    /\ ensVotes' = <<>>
    /\ ensRaised' = FALSE
    /\ IF ensN = 0
       THEN /\ ensPc' = "done"
            /\ ensIdx' = 0
            /\ ensDecision' = ReturnOf(call, <<>>, override, ensMinConf)
       ELSE /\ ensPc' = "collect"
            /\ ensIdx' = 1
            /\ ensDecision' = NoDecision
    /\ UNCHANGED <<ensN, ensMinConf>>

RunStart ==
    \E call \in {"run", "run_and_assert"}, override \in Overrides :
        /\ ensPc = "idle"
        /\ call = "run" => override = None
        /\ BeginRun(call, override)

\* One iteration of run's for loop in which engine(market_state) returns an
\* Action: votes[engine_name] = action
EngineReturns(a) ==
    /\ ensPc = "collect"
    /\ ensIdx <= ensN
    /\ ensOutcome' = [ensOutcome EXCEPT ![ensIdx] = Voted(a)]
    /\ ensVotes' = Append(ensVotes, [name |-> ensIdx, action |-> a])
    /\ ensIdx' = ensIdx + 1
    /\ UNCHANGED <<ensN, ensMinConf, ensPc, ensCall, ensOverride,
                   ensDecision, ensRaised>>

RunEngineVotes == \E a \in EngineActions : EngineReturns(a)

\* run's for loop without the try/except: the engine's exception leaves run
engine_failed_in_run_uncaught(votes) ==
    [votes |-> votes, raised |-> TRUE]

\* What run's for loop does when the engine raises: `except Exception` prints
\* and continues with the next engine
engine_failed_in_run(votes) ==
    [votes |-> votes, raised |-> FALSE]

\* One iteration of run's for loop in which the engine raises
RunEngineFails ==
    LET h == engine_failed_in_run(ensVotes)
    IN  /\ ensPc = "collect"
        /\ ensIdx <= ensN
        /\ ensOutcome' = [ensOutcome EXCEPT ![ensIdx] = Failed]
        /\ ensVotes' = h.votes
        /\ ensRaised' = h.raised
        /\ IF h.raised
           THEN ensPc' = "done" /\ ensIdx' = ensIdx
           ELSE ensPc' = ensPc /\ ensIdx' = ensIdx + 1
        /\ UNCHANGED <<ensN, ensMinConf, ensCall, ensOverride, ensDecision>>

\* run after the for loop: the no-vote Decision or the aggregated one, and
\* run_and_assert's threshold on top of it
RunFinish ==
    /\ ensPc = "collect"
    /\ ensIdx = ensN + 1
    /\ ensDecision' = ReturnOf(ensCall, ensVotes, ensOverride, ensMinConf)
    /\ ensPc' = "done"
    /\ UNCHANGED <<ensN, ensMinConf, ensCall, ensOverride, ensIdx,
                   ensOutcome, ensVotes, ensRaised>>

\* run_async up to `await asyncio.gather(...)`: one run_engine task per
\* registered engine
AsyncStart ==
    /\ ensPc = "idle"
    /\ ensCall' = "run_async"
    /\ ensOverride' = None
    /\ ensOutcome' = [i \in Engines |-> NotRun]
    /\ ensVotes' = <<>>
    /\ ensRaised' = FALSE
    /\ ensIdx' = 0
    /\ IF ensN = 0
       THEN /\ ensPc' = "done"
            /\ ensDecision' = NoVotesDecision
       ELSE /\ ensPc' = "gather"
            /\ ensDecision' = NoDecision
    /\ UNCHANGED <<ensN, ensMinConf>>

\* A run_engine task completes with the engine's Action; the tasks complete
\* in any order
AsyncEngineVotes ==
    \E i \in Engines, a \in EngineActions :
        /\ ensPc = "gather"
        /\ ensOutcome[i] = NotRun
        /\ ensOutcome' = [ensOutcome EXCEPT ![i] = Voted(a)]
        /\ UNCHANGED <<ensN, ensMinConf, ensPc, ensCall, ensOverride, ensIdx,
                       ensVotes, ensDecision, ensRaised>>

\* A run_engine task whose engine raises: it returns (name, None)
AsyncEngineFails ==
    \E i \in Engines :
        /\ ensPc = "gather"
        /\ ensOutcome[i] = NotRun
        /\ ensOutcome' = [ensOutcome EXCEPT ![i] = Failed]
        /\ UNCHANGED <<ensN, ensMinConf, ensPc, ensCall, ensOverride, ensIdx,
                       ensVotes, ensDecision, ensRaised>>

\* A run_engine task whose engine never completes: the task stays pending.
\* run_engine awaits the engine with no timeout, so nothing ends the task.
AsyncEngineHangs ==
    \E i \in Engines :
        /\ ensPc = "gather"
        /\ ensOutcome[i] = NotRun
        /\ ensOutcome' = [ensOutcome EXCEPT ![i] = Hung]
        /\ UNCHANGED <<ensN, ensMinConf, ensPc, ensCall, ensOverride, ensIdx,
                       ensVotes, ensDecision, ensRaised>>

\* gather returns once every task has completed; run_async then filters,
\* aggregates and returns
AsyncJoin ==
    /\ ensPc = "gather"
    /\ \A i \in Engines : ensOutcome[i] \notin {NotRun, Hung}
    /\ ensVotes' = GatheredVotes(ensOutcome, 1, ensN)
    /\ ensDecision' = DecisionOf(ensVotes', ensMinConf)
    /\ ensPc' = "done"
    /\ UNCHANGED <<ensN, ensMinConf, ensCall, ensOverride, ensIdx,
                   ensOutcome, ensRaised>>

\* The caller takes the Decision; the ensemble keeps nothing of the call
EnsForget ==
    /\ ensPc' = "idle"
    /\ ensCall' = "none"
    /\ ensOverride' = None
    /\ ensIdx' = 0
    /\ ensOutcome' = <<>>
    /\ ensVotes' = <<>>
    /\ ensDecision' = NoDecision
    /\ ensRaised' = FALSE
    /\ UNCHANGED <<ensN, ensMinConf>>

EnsReturn ==
    /\ ensPc = "done"
    /\ EnsForget

-----------------------------------------------------------------------------
(* LeverageEngine and PaperTrader *)

(***************************************************************************)
(* Amounts in the execution components are fixed-point integers: money in  *)
(* thousandths of a dollar, prices in cents, fractions of capital and       *)
(* volatility in 1/10000 (basis points), slippage in 1/10000 of a basis    *)
(* point.  A product is divided back with \div, which rounds down where    *)
(* the program's float keeps the remainder.                                *)
(***************************************************************************)

Min(a, b) == IF a < b THEN a ELSE b
Max(a, b) == IF a > b THEN a ELSE b

\* a fraction in [0,1] as basis points
Bps(f) == (f.num * 10000) \div f.den

\* initial_capital = 100.0 (PaperTrader, Backtest, LiveBot's "initial_balance")
InitialCapital == 100000

\* LeverageConfig's defaults
LeverageConfig ==
    [max_leverage |-> 5, max_position_pct |-> 3500, min_position_pct |-> 100,
     use_kelly |-> TRUE]

\* LeverageEngine.compute_position_size(action, market_state,
\* allocation_fraction) of an engine with this config and current_capital;
\* allocation_fraction in basis points, max_leverage a whole number
position_size(config, current_capital, action, allocation_fraction) ==
    LET confidence_scaled ==
            (allocation_fraction * Bps(action.confidence)) \div 10000
        final_fraction ==
            Max(config.min_position_pct,
                Min(confidence_scaled, config.max_position_pct))
        base == (current_capital * final_fraction) \div 10000
        desired_leverage ==
            IF action.leverage.num > config.max_leverage * action.leverage.den
            THEN Frac(config.max_leverage, 1) ELSE action.leverage
        effective_leverage ==
            IF config.use_kelly THEN desired_leverage ELSE Frac(1, 1)
    IN  [size |-> (base * effective_leverage.num)
                    \div effective_leverage.den,
         leverage |-> effective_leverage]

\* compute_position_size of the orchestrators' engine, which has
\* LeverageConfig's defaults
compute_position_size(capital, action, allocation_fraction) ==
    position_size(LeverageConfig, capital, action, allocation_fraction)

\* PaperTrader's base_fee_bps and base_slippage_bps defaults
BaseFeeBps == 5
BaseSlippageBps == 3

\* PaperTrader.__init__
NewPaperTrader ==
    [initial_capital |-> InitialCapital, current_capital |-> InitialCapital,
     base_fee_bps |-> BaseFeeBps, base_slippage_bps |-> BaseSlippageBps,
     trades |-> <<>>, open_positions |-> <<>>, trade_counter |-> 0]

\* base_slippage_bps * (1 + min(size_usd / 10000, 1.0) + volatility)
total_slippage_bps(pt, size_usd, ms) ==
    pt.base_slippage_bps
        * (10000 + Min(size_usd \div 1000, 10000) + ms.volatility)

\* price * (1 + slippage / 10000) and price * (1 - slippage / 10000)
PriceUp(price, slippage) == price + (price * slippage) \div 100000000
PriceDown(price, slippage) == price - (price * slippage) \div 100000000

\* size_usd * (base_fee_bps / 10000)
FeeOf(pt, size_usd) == (size_usd * pt.base_fee_bps) \div 10000

\* simulate_execution that leaves the capital as it is
simulate_execution_unpaid(pt, action, ms, size_usd) ==
    LET trade_id == pt.trade_counter + 1
        slippage == total_slippage_bps(pt, size_usd, ms)
        entry_price == IF action.action_type = LONG
                       THEN PriceUp(ms.ask, slippage)
                       ELSE PriceDown(ms.bid, slippage)
        fees == FeeOf(pt, size_usd)
        trade == [trade_id |-> trade_id, action_type |-> action.action_type,
                  entry_price |-> entry_price, exit_price |-> NoValue,
                  size_usd |-> size_usd, leverage |-> action.leverage,
                  fees |-> fees, slippage_bps |-> slippage,
                  pnl |-> NoValue, is_closed |-> FALSE]
    IN  [pt EXCEPT !.trade_counter = trade_id,
                   !.open_positions = Append(@, trade_id),
                   !.trades = Append(@, trade)]

\* PaperTrader.simulate_execution(action, market_state, size_usd): the
\* PaperTrader afterwards.  A trade is named by its counter value
\* ("sim_trade_<n>"); open_positions is the dict's keys in insertion order.
simulate_execution(pt, action, ms, size_usd) ==
    LET trade_id == pt.trade_counter + 1
        slippage == total_slippage_bps(pt, size_usd, ms)
        entry_price == IF action.action_type = LONG
                       THEN PriceUp(ms.ask, slippage)
                       ELSE PriceDown(ms.bid, slippage)
        fees == FeeOf(pt, size_usd)
        trade == [trade_id |-> trade_id, action_type |-> action.action_type,
                  entry_price |-> entry_price, exit_price |-> NoValue,
                  size_usd |-> size_usd, leverage |-> action.leverage,
                  fees |-> fees, slippage_bps |-> slippage,
                  pnl |-> NoValue, is_closed |-> FALSE]
    IN  [pt EXCEPT !.trade_counter = trade_id,
                   !.open_positions = Append(@, trade_id),
                   !.trades = Append(@, trade),
                   !.current_capital = @ - fees]

\* The index in pt.trades of the trade named trade_id
TradeIndex(pt, trade_id) ==
    CHOOSE i \in 1..Len(pt.trades) : pt.trades[i].trade_id = trade_id

\* What record_exit does to an open trade: exit price, pnl, flag and fees
closed_trade(pt, trade, ms) ==
    LET slippage == total_slippage_bps(pt, trade.size_usd, ms)
        exit_price == IF trade.action_type = LONG
                      THEN PriceDown(ms.bid, slippage)
                      ELSE PriceUp(ms.ask, slippage)
        price_change == IF trade.action_type = LONG
                        THEN exit_price - trade.entry_price
                        ELSE trade.entry_price - exit_price
        exit_fees == FeeOf(pt, trade.size_usd)
        pnl == (trade.size_usd * price_change * trade.leverage.num)
                 \div (trade.entry_price * trade.leverage.den) - exit_fees
    IN  [trade EXCEPT !.exit_price = <<exit_price>>,
                      !.pnl = <<pnl>>,
                      !.is_closed = TRUE,
                      !.fees = @ + exit_fees]

\* What record_exit returns: no value (None) when trade_id is not in
\* open_positions, the closed trade otherwise
record_exit_returns(pt, trade_id, ms) ==
    IF \A k \in 1..Len(pt.open_positions) : pt.open_positions[k] # trade_id
    THEN NoValue
    ELSE <<closed_trade(pt, pt.trades[TradeIndex(pt, trade_id)], ms)>>

\* record_exit looking the trade up in the ledger instead of open_positions
record_exit_by_ledger(pt, trade_id, ms) ==
    IF \A k \in 1..Len(pt.trades) : pt.trades[k].trade_id # trade_id
    THEN pt
    ELSE LET i == TradeIndex(pt, trade_id)
             closed == closed_trade(pt, pt.trades[i], ms)
         IN  [pt EXCEPT !.trades[i] = closed,
                        !.current_capital = @ + closed.pnl[1],
                        !.open_positions =
                            SelectSeq(@, LAMBDA id : id # trade_id)]

\* record_exit crediting the capital with the pnl before the exit fee
record_exit_gross(pt, trade_id, ms) ==
    IF \A k \in 1..Len(pt.open_positions) : pt.open_positions[k] # trade_id
    THEN pt
    ELSE LET i == TradeIndex(pt, trade_id)
             closed == closed_trade(pt, pt.trades[i], ms)
         IN  [pt EXCEPT !.trades[i] = closed,
                        !.current_capital =
                            @ + closed.pnl[1] + FeeOf(pt, closed.size_usd),
                        !.open_positions =
                            SelectSeq(@, LAMBDA id : id # trade_id)]

\* record_exit leaving the trade in open_positions
record_exit_keeps_open(pt, trade_id, ms) ==
    IF \A k \in 1..Len(pt.open_positions) : pt.open_positions[k] # trade_id
    THEN pt
    ELSE LET i == TradeIndex(pt, trade_id)
             closed == closed_trade(pt, pt.trades[i], ms)
         IN  [pt EXCEPT !.trades[i] = closed,
                        !.current_capital = @ + closed.pnl[1]]

\* PaperTrader.record_exit(trade_id, market_state): the PaperTrader
\* afterwards, unchanged when trade_id is not in open_positions (the call
\* returns None)
record_exit(pt, trade_id, ms) ==
    IF \A k \in 1..Len(pt.open_positions) : pt.open_positions[k] # trade_id
    THEN pt
    ELSE LET i == TradeIndex(pt, trade_id)
             closed == closed_trade(pt, pt.trades[i], ms)
         IN  [pt EXCEPT !.trades[i] = closed,
                        !.current_capital = @ + closed.pnl[1],
                        !.open_positions =
                            SelectSeq(@, LAMBDA id : id # trade_id)]

\* PaperTrader.close_all_positions(market_state): record_exit for each key
\* of open_positions, in order
RECURSIVE CloseEach(_, _, _)
CloseEach(pt, trade_ids, ms) ==
    IF trade_ids = <<>> THEN pt
    ELSE CloseEach(record_exit(pt, trade_ids[1], ms), Tail(trade_ids), ms)

\* close_all_positions going through all but the last key of open_positions
close_all_positions_but_last(pt, ms) ==
    CloseEach(pt, SubSeq(pt.open_positions, 1, Len(pt.open_positions) - 1), ms)

close_all_positions(pt, ms) == CloseEach(pt, pt.open_positions, ms)

\* What close_all_positions returns: the results of its record_exit calls
\* that are not None, in the order of the calls
RECURSIVE CloseEachReturns(_, _, _)
CloseEachReturns(pt, trade_ids, ms) ==
    IF trade_ids = <<>> THEN <<>>
    ELSE LET closed_trade_ == record_exit_returns(pt, trade_ids[1], ms)
         IN  closed_trade_
                 \o CloseEachReturns(record_exit(pt, trade_ids[1], ms),
                                     Tail(trade_ids), ms)

close_all_positions_returns(pt, ms) ==
    CloseEachReturns(pt, pt.open_positions, ms)

\* The counts of PaperTrader.summary().  `t.pnl and t.pnl > 0` is false for
\* a pnl of 0.0, and so is `t.pnl and t.pnl <= 0`.
summary(pt) ==
    LET closed == SelectSeq(pt.trades, LAMBDA t : t.is_closed)
        winning == SelectSeq(closed, LAMBDA t : /\ t.pnl # NoValue
                                                 /\ t.pnl[1] # 0
                                                 /\ t.pnl[1] > 0)
        losing == SelectSeq(closed, LAMBDA t : /\ t.pnl # NoValue
                                                /\ t.pnl[1] # 0
                                                /\ t.pnl[1] <= 0)
    IN  [total_trades |-> Len(closed),
         winning_trades |-> Len(winning),
         losing_trades |-> Len(losing),
         current_capital |-> pt.current_capital]

\* The win_rate of PaperTrader.summary(): 0.0 without closed trades,
\* len(winning_trades) / len(closed_trades) otherwise
win_rate(pt) ==
    LET s == summary(pt)
    IN  IF s.total_trades = 0 THEN Frac(0, 1)
        ELSE Frac(s.winning_trades, s.total_trades)

-----------------------------------------------------------------------------
(* The orchestrators: LiveBot.run_loop / run_cycle and Backtest.run *)

\* The most cycles (run_loop iterations, bars) of a run
MaxCycles == 2

\* The engines the orchestrated ensemble has, at most
CycleEngines == 2

\* The min_confidence the orchestrator is configured with (x100); 75 is the
\* default of both
CycleMinConfidences == {50, DefaultMinConfidence}

\* What the engines of an orchestrated ensemble return
CycleEngineActions ==
    {[action_type |-> LONG, confidence |-> 100, size_fraction |-> 0, leverage |-> 2],
     [action_type |-> LONG, confidence |-> 50, size_fraction |-> 0, leverage |-> 1],
     [action_type |-> SHORT, confidence |-> 100, size_fraction |-> 0, leverage |-> 1],
     [action_type |-> HOLD, confidence |-> 100, size_fraction |-> 0, leverage |-> 1]}

NoSnapshot == [price |-> None]

\* The MarketStates the LiveBot's market_fetcher returns: one every rule of
\* both gate configurations passes, one over the MEV threshold, and one
\* that is slow on a thin market
CycleSnapshots ==
    {[mev_risk_score |-> 50, latency_ms |-> 100, volume_24h |-> 200000,
      price |-> 10000, ema_short |-> 10000, ema_long |-> 10000,
      bid |-> 9995, ask |-> 10005, volatility |-> 200],
     [mev_risk_score |-> 71, latency_ms |-> 100, volume_24h |-> 200000,
      price |-> 10000, ema_short |-> 10000, ema_long |-> 10000,
      bid |-> 9995, ask |-> 10005, volatility |-> 200],
     [mev_risk_score |-> 0, latency_ms |-> 501, volume_24h |-> 0,
      price |-> 10100, ema_short |-> 10000, ema_long |-> 10000,
      bid |-> 10090, ask |-> 10110, volatility |-> 500]}

\* The HistoricalBars the Backtest replays (prices in cents): a liquid bar
\* and a thin one at a higher close
Bars ==
    {[close |-> 10000, high |-> 10100, low |-> 9900, volume |-> 200000],
     [close |-> 10200, high |-> 10300, low |-> 10200, volume |-> 50000]}

\* Backtest._bar_to_market_state(bar); max(bid, 0.01) is one cent
bar_to_market_state(bar) ==
    LET price == bar.close
        spread == (bar.high - bar.low) \div 2
        bid == price - spread \div 2
        ask == price + spread \div 2
        volatility == IF bar.close > 0
                      THEN ((bar.high - bar.low) * 10000) \div bar.close
                      ELSE 0
    IN  [price |-> price, bid |-> Max(bid, 1), ask |-> ask,
         volume_24h |-> bar.volume, ema_short |-> price, ema_long |-> price,
         volatility |-> volatility, latency_ms |-> 0, mev_risk_score |-> 0]

\* The orchestrator going on to the ensemble whatever the gate returned
gate_short_circuits_never(allowed) == FALSE

\* `if not allowed: return {...}` in run_cycle, `if not allowed: ...
\* continue` in Backtest.run
gate_short_circuits(allowed) == ~allowed

\* LiveBot.__init__: the circuit breaker's fields and the PerformanceMetrics
NewLiveBot ==
    [circuit_breaker_triggered |-> FALSE, consecutive_losses |-> 0,
     daily_loss_pct |-> 0,
     metrics |-> [total_trades |-> 0, winning_trades |-> 0,
                  losing_trades |-> 0, max_drawdown_pct |-> 0]]

\* What the LiveBot is constructed with: the config's circuit-breaker limits
\* (circuit_breaker_drawdown in millionths, max_daily_loss_pct x100), and its
\* onflow_engine: "src" is the
\* OnflowEngine of src/src/core/onflow_engine.py, the constructor's default,
\* which has no get_allocation_fraction; "variant" is an injected allocator
\* that has the method, as the one tests/test_onflow_engine.py exercises.
DefaultBotConfig ==
    [circuit_breaker_drawdown |-> 250000, max_daily_loss_pct |-> 15,
     consecutive_losses_limit |-> 5, onflow_engine |-> "src"]

BotConfigs ==
    {DefaultBotConfig,
     [DefaultBotConfig EXCEPT !.onflow_engine = "variant"],
     [DefaultBotConfig EXCEPT !.consecutive_losses_limit = 0],
     [DefaultBotConfig EXCEPT !.onflow_engine = "variant",
                              !.circuit_breaker_drawdown = 40]}

\* LiveBot._check_circuit_breaker(); metrics.max_drawdown_pct is in percent
check_circuit_breaker(b, cfg) ==
    \/ b.metrics.max_drawdown_pct * 10000 >= cfg.circuit_breaker_drawdown
    \/ b.daily_loss_pct >= cfg.max_daily_loss_pct
    \/ b.consecutive_losses >= cfg.consecutive_losses_limit

\* get_allocation_fraction(confidence) of the injected allocator, in basis
\* points: run_cycle never calls the allocator's update, so it has no trade
\* history and returns its min_allocation (0.05)
get_allocation_fraction(confidence) == 500

\* LiveBot._save_metrics(): the metrics taken over from paper_trader.summary()
save_metrics(b, pt) ==
    LET s == summary(pt)
    IN  [b EXCEPT !.metrics.total_trades = s.total_trades,
                  !.metrics.winning_trades = s.winning_trades,
                  !.metrics.losing_trades = s.losing_trades]

\* run_cycle without its `Skip HOLD actions` return
live_decide_trades_hold(d, ms, pt, capital, b, cfg) ==
    LET same == [paper |-> pt, capital |-> capital, bot |-> b, opened |-> 0]
    IN  IF d.status # APPROVED
        THEN [status |-> "blocked_by_ensemble"] @@ same
        ELSE IF cfg.onflow_engine = "src"
        THEN [status |-> "AttributeError"] @@ same
        ELSE LET sized == compute_position_size(
                              capital, d.action,
                              get_allocation_fraction(d.consensus_confidence))
                 action == [d.action EXCEPT !.leverage = sized.leverage]
                 pt2 == simulate_execution(pt, action, ms, sized.size)
             IN  IF sized.size <= 0
                 THEN [status |-> "position_size_too_small"] @@ same
                 ELSE [status |-> "executed_simulation",
                       paper |-> pt2,
                       capital |-> pt2.current_capital,
                       bot |-> [b EXCEPT !.metrics.total_trades = @ + 1],
                       opened |-> 1]

\* run_cycle from the Decision on (steps 3 to 5, simulation mode): the
\* result's status and the components afterwards
live_decide(d, ms, pt, capital, b, cfg) ==
    LET same == [paper |-> pt, capital |-> capital, bot |-> b, opened |-> 0]
    IN  IF d.status # APPROVED
        THEN [status |-> "blocked_by_ensemble"] @@ same
        ELSE IF d.action.action_type = HOLD
        THEN [status |-> "hold_decision"] @@ same
        ELSE IF cfg.onflow_engine = "src"
        THEN [status |-> "AttributeError"] @@ same
        ELSE LET sized == compute_position_size(
                              capital, d.action,
                              get_allocation_fraction(d.consensus_confidence))
                 action == [d.action EXCEPT !.leverage = sized.leverage]
                 pt2 == simulate_execution(pt, action, ms, sized.size)
             IN  IF sized.size <= 0
                 THEN [status |-> "position_size_too_small"] @@ same
                 ELSE [status |-> "executed_simulation",
                       paper |-> pt2,
                       capital |-> pt2.current_capital,
                       bot |-> [b EXCEPT !.metrics.total_trades = @ + 1],
                       opened |-> 1]

\* Backtest.run's loop body from the Decision on.  A result is appended only
\* on the branches that have a status here; "none" is the approved decision
\* whose position size is not positive.
backtest_decide(d, ms, pt, capital) ==
    IF d.status # APPROVED
    THEN [status |-> "low_confidence", paper |-> pt, capital |-> capital,
          opened |-> 0]
    ELSE LET allocation_fraction == (Bps(d.consensus_confidence) * 3500) \div 10000
             sized == compute_position_size(capital, d.action, allocation_fraction)
             action == [d.action EXCEPT !.leverage = sized.leverage]
             pt2 == simulate_execution(pt, action, ms, sized.size)
         IN  IF sized.size > 0
             THEN [status |-> "executed", paper |-> pt2,
                   capital |-> pt2.current_capital, opened |-> 1]
             ELSE [status |-> "none", paper |-> pt, capital |-> capital,
                   opened |-> 0]

cycSetup == <<orch, cycLimit, cycMinConf, botCfg>>

\* logic_gate.check(market_state) and the orchestrator's test of `allowed`:
\* a blocked cycle ends with blockedStatus; an allowed one goes on to
\* ensemble.run_and_assert(market_state, min_confidence)
GateStep(ms, blockedStatus, blockedPc) ==
    LET r == check(gateCfg, ms)
    IN  /\ gateSnap' = ms
        /\ gateResult' = r
        /\ gatePc' = "checked"
        /\ UNCHANGED gateCfg
        /\ cycSnap' = ms
        /\ cycAllBlocked' = (cycAllBlocked /\ ~r.allowed)
        /\ IF gate_short_circuits(r.allowed)
           THEN /\ cycStatus' = blockedStatus
                /\ cycPc' = blockedPc
                /\ EnsForget
           ELSE /\ cycStatus' = "none"
                /\ cycPc' = "vote"
                /\ BeginRun("run_and_assert", cycMinConf)

\* run_cycle returning the status without setting the flag
trip_forgets(b) == b

\* self.circuit_breaker_triggered = True
trip(b) == [b EXCEPT !.circuit_breaker_triggered = TRUE]

\* run_loop's while test passes and run_cycle starts: step 0, the circuit
\* breaker
LiveCycleBegin ==
    /\ orch = "live"
    /\ cycPc = "loop"
    /\ cycIter < cycLimit
    /\ ~bot.circuit_breaker_triggered
    /\ IF check_circuit_breaker(bot, botCfg)
       THEN /\ bot' = trip(bot)
            /\ cycStatus' = "circuit_breaker_triggered"
            /\ cycPc' = "save"
       ELSE /\ bot' = bot
            /\ cycStatus' = "none"
            /\ cycPc' = "fetch"
    /\ cycSnap' = NoSnapshot
    /\ cycGateCalls' = 0
    /\ cycEngineCalls' = 0
    /\ cycOpened' = 0
    /\ UNCHANGED <<cycSetup, cycIter, levCapital, paper, cycAllBlocked>>
    /\ UNCHANGED <<gateVars, ensVars>>

\* run_loop leaves the while loop: the iterations are done, or the breaker
\* has triggered
LiveLoopEnd ==
    /\ orch = "live"
    /\ cycPc = "loop"
    /\ cycIter >= cycLimit \/ bot.circuit_breaker_triggered
    /\ cycPc' = "stopped"
    /\ UNCHANGED <<cycSetup, cycIter, cycSnap, cycStatus, levCapital, paper,
                   bot, cycGateCalls, cycEngineCalls, cycOpened, cycAllBlocked>>
    /\ UNCHANGED <<gateVars, ensVars>>

\* Step 1 of run_cycle when fetch_market_state raises
LiveFetchFails ==
    /\ orch = "live"
    /\ cycPc = "fetch"
    /\ cycStatus' = "market_fetch_failed"
    /\ cycPc' = "save"
    /\ UNCHANGED <<cycSetup, cycIter, cycSnap, levCapital, paper, bot,
                   cycGateCalls, cycEngineCalls, cycOpened, cycAllBlocked>>
    /\ UNCHANGED <<gateVars, ensVars>>

\* Steps 1 and 2 of run_cycle: the snapshot is fetched and the gate checked
LiveFetch ==
    \E ms \in CycleSnapshots :
        /\ orch = "live"
        /\ cycPc = "fetch"
        /\ GateStep(ms, "blocked_by_logic_gate", "save")
        /\ cycGateCalls' = cycGateCalls + 1
        /\ UNCHANGED <<cycSetup, cycIter, levCapital, paper, bot,
                       cycEngineCalls, cycOpened>>

CycUnchangedByEngine ==
    UNCHANGED <<cycSetup, cycPc, cycIter, cycSnap, cycStatus, levCapital,
                paper, bot, cycGateCalls, cycOpened, cycAllBlocked>>

\* run_and_assert -> run: one engine returns the Action a
CycEngineReturns(a) ==
    /\ cycPc = "vote"
    /\ EngineReturns(a)
    /\ cycEngineCalls' = cycEngineCalls + 1
    /\ CycUnchangedByEngine
    /\ UNCHANGED gateVars

\* run_and_assert -> run: one engine returns its Action
CycEngineVotes == \E a \in CycleEngineActions : CycEngineReturns(a)

\* run_and_assert -> run: one engine raises
CycEngineFails ==
    /\ cycPc = "vote"
    /\ RunEngineFails
    /\ cycEngineCalls' = cycEngineCalls + 1
    /\ CycUnchangedByEngine
    /\ UNCHANGED gateVars

\* run_and_assert returns the Decision
CycRunFinish ==
    /\ cycPc = "vote"
    /\ RunFinish
    /\ UNCHANGED <<cycEngineCalls, gateVars>>
    /\ CycUnchangedByEngine

\* run_cycle from the Decision to its return (or to the AttributeError that
\* leaves run_cycle and run_loop).  The Decision is a local of run_cycle and
\* the ensemble keeps nothing of the call.
LiveDecide ==
    LET r == live_decide(ensDecision, cycSnap, paper, levCapital, bot, botCfg)
    IN  /\ orch = "live"
        /\ cycPc = "vote"
        /\ ensPc = "done"
        /\ cycStatus' = r.status
        /\ cycPc' = IF r.status = "AttributeError" THEN "crashed" ELSE "save"
        /\ paper' = r.paper
        /\ levCapital' = r.capital
        /\ bot' = r.bot
        /\ cycOpened' = cycOpened + r.opened
        /\ EnsForget
        /\ UNCHANGED <<cycSetup, cycIter, cycSnap, cycGateCalls,
                       cycEngineCalls, cycAllBlocked>>
        /\ UNCHANGED gateVars

\* run_loop after run_cycle returned: _save_metrics(), iteration += 1, sleep
LiveSave ==
    /\ orch = "live"
    /\ cycPc = "save"
    /\ bot' = save_metrics(bot, paper)
    /\ cycIter' = cycIter + 1
    /\ cycPc' = "loop"
    /\ UNCHANGED <<cycSetup, cycSnap, cycStatus, levCapital, paper,
                   cycGateCalls, cycEngineCalls, cycOpened, cycAllBlocked>>
    /\ UNCHANGED <<gateVars, ensVars>>

\* Backtest.run's loop takes the next bar: the bar becomes a MarketState and
\* the gate is checked
BacktestBar ==
    \E bar \in Bars :
        /\ orch = "backtest"
        /\ cycPc = "bar"
        /\ cycIter < cycLimit
        /\ GateStep(bar_to_market_state(bar), "blocked", "bar")
        /\ cycIter' = IF cycPc' = "bar" THEN cycIter + 1 ELSE cycIter
        /\ cycGateCalls' = 1
        /\ cycEngineCalls' = 0
        /\ cycOpened' = 0
        /\ UNCHANGED <<cycSetup, levCapital, paper, bot>>

\* Backtest.run's loop body from the Decision to the end of the iteration
BacktestDecide ==
    LET r == backtest_decide(ensDecision, cycSnap, paper, levCapital)
    IN  /\ orch = "backtest"
        /\ cycPc = "vote"
        /\ ensPc = "done"
        /\ cycStatus' = r.status
        /\ cycPc' = "bar"
        /\ cycIter' = cycIter + 1
        /\ paper' = r.paper
        /\ levCapital' = r.capital
        /\ cycOpened' = cycOpened + r.opened
        /\ EnsForget
        /\ UNCHANGED <<cycSetup, cycSnap, bot, cycGateCalls, cycEngineCalls,
                       cycAllBlocked>>
        /\ UNCHANGED gateVars

\* Backtest.run after the loop: the open positions are closed on the last
\* bar's MarketState and the summary is built
BacktestFinish ==
    /\ orch = "backtest"
    /\ cycPc = "bar"
    /\ cycIter = cycLimit
    /\ paper' = IF cycLimit > 0 THEN close_all_positions(paper, cycSnap)
                ELSE paper
    /\ cycPc' = "finished"
    /\ cycStatus' = "backtest_complete"
    /\ UNCHANGED <<cycSetup, cycIter, cycSnap, levCapital, bot, cycGateCalls,
                   cycEngineCalls, cycOpened, cycAllBlocked>>
    /\ UNCHANGED <<gateVars, ensVars>>

-----------------------------------------------------------------------------
(* OnflowEngine: EWMA statistics and the Kelly-style allocation.  The     *)
(* engine's averages are held as integers scaled by OnflowScale, return    *)
(* percentages as whole percents and volatilities in hundredths, so that    *)
(* every blend of update is exact and suggest_allocation's estimate is an   *)
(* exact fraction.                                                      *)

\* The most update calls one engine receives
MaxOnflowUpdates == 3

\* ewma_alpha = 0.2 = 1 / EwmaAlphaDen
EwmaAlphaDen == 5

RECURSIVE Pow(_, _)
Pow(b, n) == IF n = 0 THEN 1 ELSE b * Pow(b, n - 1)

\* The first update stores its value, each later one blends with weight
\* 1/EwmaAlphaDen: this scale keeps every stored average an integer.
OnflowScale == Pow(EwmaAlphaDen, MaxOnflowUpdates - 1)

\* Constructor defaults, the allocations in hundredths and kelly_fraction as
\* 1 / kelly_fraction_den
OnflowConfig ==
    [max_allocation     |-> 50,
     min_allocation     |-> 1,
     kelly_fraction_den |-> 4]

NewOnflowEngine ==
    [ewma_win_rate   |-> NoValue,
     ewma_avg_return |-> NoValue,
     ewma_volatility |-> NoValue,
     trade_count     |-> 0]

\* The arguments update is called with: return_pct in percent, volatility in
\* hundredths
OnflowReturns == {-5, 10}
OnflowVolatilities == {0, 2}

\* market_state.volatility of the snapshots suggest_allocation is given, in
\* hundredths
SnapshotVolatilities == {0, 2, 10}

\* One EWMA field after a sample x (unscaled): the sample itself the first
\* time, alpha * x + (1 - alpha) * old afterwards
ewma(old, x) ==
    IF old = NoValue
    THEN <<x * OnflowScale>>
    ELSE <<(x * OnflowScale + (EwmaAlphaDen - 1) * old[1]) \div EwmaAlphaDen>>

update(e, won, return_pct, volatility) ==
    [ewma_win_rate   |-> ewma(e.ewma_win_rate, IF won THEN 1 ELSE 0),
     ewma_avg_return |-> ewma(e.ewma_avg_return, return_pct),
     ewma_volatility |-> ewma(e.ewma_volatility, volatility),
     trade_count     |-> e.trade_count + 1]

FracMore(f, x100) == f.num * 100 > x100 * f.den

\* np.clip without its bounds
clip_none(k, lo, hi) == k

\* np.clip(k, lo, hi), lo and hi in hundredths
clip(k, lo, hi) ==
    IF FracLess(k, lo) THEN Frac(lo, 100)
    ELSE IF FracMore(k, hi) THEN Frac(hi, 100)
    ELSE k

\* suggest_allocation answering nothing at all without history
suggest_allocation_zero(e, volatility) ==
    IF e.ewma_win_rate = NoValue \/ e.ewma_avg_return = NoValue
    THEN Frac(0, 100)
    ELSE LET p == e.ewma_win_rate[1]
             r == e.ewma_avg_return[1]
             v == IF volatility > 0 THEN volatility ELSE 10
             blended == /\ e.ewma_volatility # NoValue
                        /\ e.ewma_volatility[1] > 0
             v2 == IF blended
                   THEN v * OnflowScale + e.ewma_volatility[1]
                   ELSE 2 * v * OnflowScale
             kelly_f ==
                 IF v2 > 0
                 THEN Frac((200 \div OnflowConfig.kelly_fraction_den)
                               * r * (OnflowScale + p),
                           v2 * v2)
                 ELSE Frac(OnflowConfig.min_allocation
                               * (OnflowScale + p),
                           (2 * OnflowConfig.kelly_fraction_den * 100)
                               * OnflowScale)
         IN  clip(kelly_f, OnflowConfig.min_allocation,
                  OnflowConfig.max_allocation)

\* suggest_allocation(market_state), of which only market_state.volatility is
\* read.  With p = ewma_win_rate / S, r = ewma_avg_return / S percent and the
\* volatility v2 / (200 S), where S = OnflowScale,
\*   edge / volatility^2 * kelly_fraction * (0.5 + 0.5 p)
\*     = (200 / kelly_fraction_den) * r * (S + p) / v2^2 .
suggest_allocation(e, volatility) ==
    IF e.ewma_win_rate = NoValue \/ e.ewma_avg_return = NoValue
    THEN Frac(OnflowConfig.min_allocation, 100)
    ELSE LET p == e.ewma_win_rate[1]
             r == e.ewma_avg_return[1]
             v == IF volatility > 0 THEN volatility ELSE 10
             blended == /\ e.ewma_volatility # NoValue
                        /\ e.ewma_volatility[1] > 0
             v2 == IF blended
                   THEN v * OnflowScale + e.ewma_volatility[1]
                   ELSE 2 * v * OnflowScale
             kelly_f ==
                 IF v2 > 0
                 THEN Frac((200 \div OnflowConfig.kelly_fraction_den)
                               * r * (OnflowScale + p),
                           v2 * v2)
                 ELSE Frac(OnflowConfig.min_allocation
                               * (OnflowScale + p),
                           (2 * OnflowConfig.kelly_fraction_den * 100)
                               * OnflowScale)
         IN  clip(kelly_f, OnflowConfig.min_allocation,
                  OnflowConfig.max_allocation)

NoAllocation == Frac(0, 1)

OnfIdle ==
    /\ onf = NewOnflowEngine
    /\ onfPc = "idle"
    /\ onfSnap = 0
    /\ onfResult = NoAllocation

\* engine.update(won, return_pct, volatility)
OnflowUpdate ==
    /\ onf.trade_count < MaxOnflowUpdates
    /\ \E won \in BOOLEAN, return_pct \in OnflowReturns,
          volatility \in OnflowVolatilities :
           onf' = update(onf, won, return_pct, volatility)
    /\ onfPc' = "idle"
    /\ onfSnap' = 0
    /\ onfResult' = NoAllocation

\* engine.suggest_allocation(market_state)
OnflowSuggest ==
    /\ \E volatility \in SnapshotVolatilities :
        /\ onfSnap' = volatility
        /\ onfResult' = suggest_allocation(onf, volatility)
    /\ onfPc' = "suggested"
    /\ UNCHANGED onf


-----------------------------------------------------------------------------
(* MDPDecision: the tabular Q-learning layer.  Q-values, rewards and the   *)
(* initial values are integers in units of 1/QScale, chosen so that every   *)
(* update of a run is exact.                                           *)

\* The most update calls one MDPDecision receives
MaxQUpdates == 2

\* learning_rate = 1 / LearningRateDen (the rate the repository's test of the
\* update uses) and discount_factor = 0.95 = DiscountNum / DiscountDen
LearningRateDen == 2
DiscountNum == 19
DiscountDen == 20
StateBins == 10

\* Each update divides by LearningRateDen * DiscountDen at most; values are
\* given in thousandths
QScale == Pow(LearningRateDen * DiscountDen, MaxQUpdates) * 1000

\* Snapshots as far as _discretize_state reads them: price in cents,
\* volatility in 1/10000, spread_bps in basis points
MdpSnapshots ==
    {[price |-> 10000, volatility |-> 200, spread_bps |-> 100],
     [price |-> 15000, volatility |-> 200, spread_bps |-> 100],
     [price |-> 10000, volatility |-> 1000, spread_bps |-> 0],
     [price |-> 14000, volatility |-> 10000, spread_bps |-> 100]}

\* int(price % 100 / 100 * state_bins)
price_bin(ms) == ((ms.price % 10000) * StateBins) \div 10000

\* int(min(volatility, 1.0) * state_bins)
vol_bin(ms) == (Min(ms.volatility, 10000) * StateBins) \div 10000

\* int(min(spread_bps / 100, 1.0) * state_bins)
spread_bin(ms) == (Min(ms.spread_bps, 100) * StateBins) \div 100

\* The three bins combined in base state_bins
_discretize_state(ms) ==
    price_bin(ms) * StateBins * StateBins + vol_bin(ms) * StateBins
        + spread_bin(ms)

StateHashes == {_discretize_state(ms) : ms \in MdpSnapshots}

\* What np.random.uniform(-0.01, 0.01) may draw for the five actions of a new
\* row, in thousandths
QInitRows ==
    {[a \in ActionType |-> -10],
     [a \in ActionType |-> IF a = LONG THEN 5 ELSE IF a = SHORT THEN -5 ELSE 0]}

\* A lookup that draws the row again whether or not the hash is in the table
_get_q_values_redrawn(table, state_hash, row) ==
    [h \in DOMAIN table \cup {state_hash} |->
        IF h = state_hash THEN [a \in ActionType |-> row[a] * (QScale \div 1000)]
        ELSE table[h]]

\* _get_q_values(state_hash): the table after the call, a new row drawn as
\* `row` when the hash is not in the table yet
_get_q_values(table, state_hash, row) ==
    IF state_hash \in DOMAIN table
    THEN table
    ELSE [h \in DOMAIN table \cup {state_hash} |->
             IF h = state_hash THEN [a \in ActionType |-> row[a] * (QScale \div 1000)]
             ELSE table[h]]

RECURSIVE SetMax(_)
SetMax(S) ==
    LET x == CHOOSE y \in S : TRUE
    IN  IF S = {x} THEN x ELSE Max(x, SetMax(S \ {x}))

\* max(next_q_values.values())
max_q(row) == SetMax({row[a] : a \in ActionType})

\* An update rule that replaces the stored value by the scaled target
new_q_overwrite(current_q, reward, max_next_q) ==
    (reward + DiscountNum * (max_next_q \div DiscountDen)) \div LearningRateDen

\* current_q + learning_rate * (reward + discount_factor * max_next_q - current_q)
new_q(current_q, reward, max_next_q) ==
    current_q
        + (reward + DiscountNum * (max_next_q \div DiscountDen) - current_q)
              \div LearningRateDen

\* The rewards update is called with, in thousandths
QRewards == {-1000, 100, 1000}

\* The actions update is called with
QActions == {LONG, SHORT}

NoUpdate == [reward |-> 0, old_q |-> 0, new_q |-> 0, target |-> 0,
             state_hash |-> -1, next_state_hash |-> -1,
             market_state |-> NoValue]

MdpIdle ==
    /\ q_table = <<>>
    /\ mdpUpdates = 0
    /\ mdpLast = NoUpdate

\* mdp.update(market_state, action_type, reward, next_market_state)
MdpUpdate ==
    /\ mdpUpdates < MaxQUpdates
    /\ \E market_state \in MdpSnapshots, next_market_state \in MdpSnapshots,
          action_type \in QActions, r \in QRewards,
          row \in QInitRows, next_row \in QInitRows :
        LET state_hash      == _discretize_state(market_state)
            next_state_hash == _discretize_state(next_market_state)
            t1              == _get_q_values(q_table, state_hash, row)
            t2              == _get_q_values(t1, next_state_hash, next_row)
            current_q       == t2[state_hash][action_type]
            max_next_q      == max_q(t2[next_state_hash])
            reward          == r * (QScale \div 1000)
            updated         == new_q(current_q, reward, max_next_q)
        IN  /\ q_table' = [t2 EXCEPT ![state_hash][action_type] = updated]
            /\ mdpLast' = [reward |-> reward, old_q |-> current_q,
                           new_q |-> updated,
                           target |-> reward
                               + DiscountNum * (max_next_q \div DiscountDen),
                           state_hash |-> state_hash,
                           next_state_hash |-> next_state_hash,
                           market_state |-> <<market_state>>]
    /\ mdpUpdates' = mdpUpdates + 1

\* mdp.select_action(market_state, confidence): the lookup initialises the
\* row of a hash not seen before; the epsilon-greedy choice and the returned
\* Action write nothing
MdpSelect ==
    /\ \E market_state \in MdpSnapshots, row \in QInitRows :
        q_table' = _get_q_values(q_table, _discretize_state(market_state), row)
    /\ UNCHANGED <<mdpUpdates, mdpLast>>


-----------------------------------------------------------------------------
(* LeverageEngine on its own: compute_position_size, request_margin and    *)
(* update_capital called in any order on an engine of any config.           *)

\* Configs an engine is built with: the defaults, a lower max_leverage, a
\* max_position_pct of 0.5% (LiveBot takes it from its config dict, leaving
\* min_position_pct at 1%), and use_kelly off
LeverageConfigs ==
    {LeverageConfig,
     [LeverageConfig EXCEPT !.max_leverage = 3],
     [LeverageConfig EXCEPT !.max_position_pct = 50],
     [LeverageConfig EXCEPT !.use_kelly = FALSE]}

\* current_capital values, in 1/1000 $
LevCapitals == {0, 50000, 100000}

\* Actions as far as compute_position_size reads them
LevActions ==
    {[confidence |-> c, leverage |-> l] :
        c \in {Frac(0, 100), Frac(50, 100), Frac(100, 100)},
        l \in {Frac(1, 1), Frac(5, 2), Frac(5, 1)}}

\* allocation_fraction values, in basis points
LevAllocations == {0, 100, 5000}

\* request_margin's arguments
MarginCollaterals == {0, 50000, 100000, 150000}
MarginLeverages == {Frac(1, 1), Frac(5, 2), Frac(5, 1), Frac(6, 1)}

\* request_margin that never looks at the capital
request_margin_unfunded(e, collateral_amount, leverage) ==
    IF leverage.num > e.config.max_leverage * leverage.den
    THEN [success |-> FALSE, error |-> "leverage"]
    ELSE [success |-> TRUE, collateral_posted |-> collateral_amount,
          leverage_granted |-> leverage,
          buying_power |-> (collateral_amount * leverage.num)
                               \div leverage.den]

\* LeverageEngine.request_margin(collateral_amount, leverage): the dict it
\* returns
request_margin(e, collateral_amount, leverage) ==
    IF leverage.num > e.config.max_leverage * leverage.den
    THEN [success |-> FALSE, error |-> "leverage"]
    ELSE IF collateral_amount > e.current_capital
    THEN [success |-> FALSE, error |-> "capital"]
    ELSE [success |-> TRUE, collateral_posted |-> collateral_amount,
          leverage_granted |-> leverage,
          buying_power |-> (collateral_amount * leverage.num)
                               \div leverage.den]

NoCall == [op |-> "none"]

LevIdle ==
    /\ lev = [config |-> LeverageConfig, current_capital |-> InitialCapital]
    /\ levCall = NoCall

\* LeverageEngine(config, current_capital)
LevInit ==
    /\ \E config \in LeverageConfigs, capital \in LevCapitals :
           lev = [config |-> config, current_capital |-> capital]
    /\ levCall = NoCall

\* engine.compute_position_size(action, market_state, allocation_fraction)
LevCompute ==
    /\ \E action \in LevActions, allocation_fraction \in LevAllocations :
           levCall' = [op |-> "compute_position_size",
                       action |-> action,
                       allocation_fraction |-> allocation_fraction,
                       capital_before |-> lev.current_capital,
                       result |-> position_size(lev.config,
                                                lev.current_capital, action,
                                                allocation_fraction)]
    /\ UNCHANGED lev

\* engine.request_margin(collateral_amount, leverage)
LevRequestMargin ==
    /\ \E collateral_amount \in MarginCollaterals,
          leverage \in MarginLeverages :
           levCall' = [op |-> "request_margin",
                       collateral_amount |-> collateral_amount,
                       leverage |-> leverage,
                       capital_before |-> lev.current_capital,
                       result |-> request_margin(lev, collateral_amount,
                                                 leverage)]
    /\ UNCHANGED lev

\* engine.update_capital(new_capital)
LevUpdateCapital ==
    /\ \E new_capital \in LevCapitals :
        /\ new_capital # lev.current_capital
        /\ lev' = [lev EXCEPT !.current_capital = new_capital]
        /\ levCall' = [op |-> "update_capital", new_capital |-> new_capital]


-----------------------------------------------------------------------------
(* PaperTrader on its own: simulate_execution, record_exit and             *)
(* close_all_positions called in any order.                                *)

\* The most trades one PaperTrader opens
MaxTrades == 2

\* base_slippage_bps of the traders: none, and the default
PaperSlippages == {0, BaseSlippageBps}

\* base_fee_bps of the traders: none, and the default
PaperFees == {0, BaseFeeBps}

\* Snapshots as far as the trader reads them (prices in cents, volatility in
\* 1/10000): one with bid = ask and no volatility, one with a spread at a
\* higher price
PtSnapshots ==
    {[bid |-> 10000, ask |-> 10000, volatility |-> 0],
     [bid |-> 10195, ask |-> 10205, volatility |-> 200]}

\* Actions as far as the trader reads them
PtActions ==
    {[action_type |-> LONG, leverage |-> Frac(2, 1)],
     [action_type |-> SHORT, leverage |-> Frac(1, 1)]}

\* size_usd values, in 1/1000 $
PtSizes == {10000, 35000}

NotClosed == [bid |-> 0, ask |-> 0, volatility |-> 0]

\* The log after a call at step `step` on snapshot ms took the trader from
\* `before` to `after`: the trades it closed get their exit recorded
LogExits(log, before, after, ms, step) ==
    [i \in 1..Len(log) |->
        IF ~before.trades[i].is_closed /\ after.trades[i].is_closed
        THEN [log[i] EXCEPT !.closed = step,
                            !.capital_after = after.current_capital,
                            !.exit_ms = ms]
        ELSE log[i]]

PtIdle ==
    /\ trader = NewPaperTrader
    /\ ptSteps = 0
    /\ ptLog = <<>>

\* PaperTrader(base_fee_bps = ..., base_slippage_bps = ...)
PtInit ==
    /\ \E slippage \in PaperSlippages, fee \in PaperFees :
           trader = [NewPaperTrader EXCEPT !.base_slippage_bps = slippage,
                                           !.base_fee_bps = fee]
    /\ ptSteps = 0
    /\ ptLog = <<>>

\* trader.simulate_execution(action, market_state, size_usd)
PtExecute ==
    /\ Len(trader.trades) < MaxTrades
    /\ \E action \in PtActions, ms \in PtSnapshots, size_usd \in PtSizes :
        /\ trader' = simulate_execution(trader, action, ms, size_usd)
        /\ ptLog' = Append(ptLog, [opened |-> ptSteps + 1, closed |-> 0,
                                   capital_before |-> trader.current_capital,
                                   capital_after |-> 0,
                                   entry_ms |-> ms, exit_ms |-> NotClosed])
    /\ ptSteps' = ptSteps + 1

\* trader.record_exit(trade_id, market_state), for the id of an open trade,
\* of a closed one, or of none
PtExit ==
    \E trade_id \in 1..(MaxTrades + 1), ms \in PtSnapshots :
        LET after == record_exit(trader, trade_id, ms)
        IN  /\ trader' = after
            /\ ptSteps' = IF after = trader THEN ptSteps ELSE ptSteps + 1
            /\ ptLog' = LogExits(ptLog, trader, after, ms, ptSteps + 1)

\* trader.close_all_positions(market_state)
PtCloseAll ==
    \E ms \in PtSnapshots :
        LET after == close_all_positions(trader, ms)
        IN  /\ trader' = after
            /\ ptSteps' = IF after = trader THEN ptSteps ELSE ptSteps + 1
            /\ ptLog' = LogExits(ptLog, trader, after, ms, ptSteps + 1)

TwapIdle == twap = [pc |-> "idle"]

JupIdle == jup = [pc |-> "idle"]

HealthIdle == health = [pc |-> "idle"]

SimIdle == msim = [pc |-> "idle"]

MarketStateIdle == mstate = [pc |-> "idle"]

ExtIdle == TwapIdle /\ JupIdle /\ HealthIdle /\ SimIdle /\ MarketStateIdle

AuxIdle == OnfIdle /\ MdpIdle /\ LevIdle /\ PtIdle /\ ExtIdle

-----------------------------------------------------------------------------
(* TWAPExecutor: an order executed in slices, each with a fresh quote.      *)
(* Times are in milliseconds, slippage in basis points, prices in cents.   *)

\* The slices an executor is built with, at most
MaxSlices == 3

\* max_slippage_bps and slice_delay_sec as the constructor defaults them, and
\* the simulated execution delay of a filled slice (time.sleep(0.05))
DefaultMaxSlippageBps == 50

SliceDelayMs == 2000

ExecutionDelayMs == 50

TwapTolerances == {20, DefaultMaxSlippageBps}

\* What quote_provider.get_quote does for one slice: it raises, or returns a
\* quote dictionary; "slippage_bps" may be missing from the dictionary
QuoteRaises == [raises |-> "Exception"]

TwapQuotes ==
    {[price |-> 10000, fees |-> 5, slippage_bps |-> sl] :
        sl \in {NoValue, <<20>>, <<50>>, <<51>>}}

QuoteOutcomes == {QuoteRaises} \cup TwapQuotes

\* quote.get("slippage_bps", 0.0)
quoted_slippage_bps(quote) ==
    IF quote.slippage_bps = NoValue THEN 0 ELSE quote.slippage_bps[1]

NewTWAPExecutor(n, tolerance) ==
    [pc |-> "ready", num_slices |-> n, slice_delay_sec |-> SliceDelayMs,
     max_slippage_bps |-> tolerance]

QuoteFailed == "Quote failed"

SlippageExceedsMax == "Slippage exceeds max"

\* The loop body that rejects a slice already at the tolerance
slice_report_strict(ex, i, outcome, now) ==
    IF outcome = QuoteRaises
    THEN [success |-> FALSE, transaction_id |-> None,
          execution_price |-> NoValue, slippage_bps |-> 0, fees |-> 0,
          latency_ms |-> 0, timestamp |-> now, error_message |-> QuoteFailed]
    ELSE IF quoted_slippage_bps(outcome) >= ex.max_slippage_bps
    THEN [success |-> FALSE, transaction_id |-> None,
          execution_price |-> <<outcome.price>>,
          slippage_bps |-> quoted_slippage_bps(outcome), fees |-> 0,
          latency_ms |-> 0, timestamp |-> now,
          error_message |-> SlippageExceedsMax]
    ELSE [success |-> TRUE, transaction_id |-> i,
          execution_price |-> <<outcome.price>>,
          slippage_bps |-> quoted_slippage_bps(outcome),
          fees |-> outcome.fees, latency_ms |-> ExecutionDelayMs,
          timestamp |-> now + ExecutionDelayMs, error_message |-> None]

\* The ExecutionReport the loop body of execute appends for slice i, given
\* what get_quote did and the time at which it was called
slice_report(ex, i, outcome, now) ==
    IF outcome = QuoteRaises
    THEN [success |-> FALSE, transaction_id |-> None,
          execution_price |-> NoValue, slippage_bps |-> 0, fees |-> 0,
          latency_ms |-> 0, timestamp |-> now, error_message |-> QuoteFailed]
    ELSE IF quoted_slippage_bps(outcome) > ex.max_slippage_bps
    THEN [success |-> FALSE, transaction_id |-> None,
          execution_price |-> <<outcome.price>>,
          slippage_bps |-> quoted_slippage_bps(outcome), fees |-> 0,
          latency_ms |-> 0, timestamp |-> now,
          error_message |-> SlippageExceedsMax]
    ELSE [success |-> TRUE, transaction_id |-> i,
          execution_price |-> <<outcome.price>>,
          slippage_bps |-> quoted_slippage_bps(outcome),
          fees |-> outcome.fees, latency_ms |-> ExecutionDelayMs,
          timestamp |-> now + ExecutionDelayMs, error_message |-> None]

\* The time the loop body of slice i sleeps before the next get_quote: the
\* two `continue` branches sleep nowhere; a filled slice sleeps for its
\* execution and, unless it is the last one, for slice_delay_sec
slice_sleep(ex, i, report) ==
    IF ~report.success THEN 0
    ELSE ExecutionDelayMs
         + (IF i < ex.num_slices - 1 THEN ex.slice_delay_sec ELSE 0)

\* execute or execute_async is called: slice_size, reports = [], side
TwapExecute ==
    \E call \in {"execute", "execute_async"} :
        /\ twap.pc = "ready"
        /\ twap' = [twap EXCEPT !.pc = "loop"]
                   @@ [call |-> call, i |-> 0, reports |-> <<>>,
                       clock |-> 0, quoted_at |-> <<>>, outcomes |-> <<>>]

\* One pass of `for i in range(self.num_slices)`
TwapSlice ==
    \E outcome \in QuoteOutcomes :
        LET report == slice_report(twap, twap.i, outcome, twap.clock)
        IN  /\ twap.pc = "loop"
            /\ twap.i < twap.num_slices
            /\ twap' = [twap EXCEPT
                          !.reports = Append(@, report),
                          !.quoted_at = Append(@, twap.clock),
                          !.outcomes = Append(@, outcome),
                          !.clock = @ + slice_sleep(twap, twap.i, report),
                          !.i = @ + 1]

\* `return reports`
TwapReturn ==
    /\ twap.pc = "loop"
    /\ twap.i = twap.num_slices
    /\ twap' = [twap EXCEPT !.pc = "returned"]

TwapInit ==
    \E n \in 1..MaxSlices, tolerance \in TwapTolerances :
        twap = NewTWAPExecutor(n, tolerance)

-----------------------------------------------------------------------------
(* JupiterQuoteClient.get_quote: the retry loop around the HTTP request.    *)
(* Waits are in seconds, notional sizes in dollars, fees in 1/10000        *)
(* dollar, token amounts in thousandths of a token, prices in cents.       *)

\* The max_retries a client is built with, at most (3 is the default)
MaxRetries == 3

QuoteSides == {"buy", "sell"}

QuoteSizes == {100, 1000}

\* What one session.get does: it raises aiohttp.ClientError or
\* asyncio.TimeoutError, or the response's JSON is read, with these amounts
ClientError == [raises |-> "aiohttp.ClientError"]

TimeoutError == [raises |-> "asyncio.TimeoutError"]

TransientFailures == {ClientError, TimeoutError}

QuoteResponses ==
    {[inAmount |-> 100000, outAmount |-> 1000],
     [inAmount |-> 100000, outAmount |-> 0]}

RequestOutcomes == TransientFailures \cup QuoteResponses

NoQuote == [none |-> TRUE]

\* The fallback dictionary of the last failed attempt
fallback_quote(size_notional) ==
    [price |-> 10000, slippage_pct |-> 10, fees_usd |-> size_notional * 10,
     is_fallback |-> TRUE]

\* The divisor of the price get_quote derives from the response
price_divisor(data, side) ==
    IF side = "buy" THEN data.outAmount ELSE data.inAmount

\* The dictionary get_quote builds from a response whose divisor is not zero
\* (no "is_fallback" key: absent is modelled as FALSE)
response_quote(data, side, size_notional) ==
    [price |-> IF side = "buy"
               THEN (data.inAmount * 100) \div data.outAmount
               ELSE (data.outAmount * 100) \div data.inAmount,
     slippage_pct |-> 0, fees_usd |-> size_notional * 5,
     is_fallback |-> FALSE]

\* The seconds the except branch of attempt `attempt` sleeps
wait_time(attempt) == Pow(2, attempt)

NewJupiterQuoteClient(retries) == [pc |-> "ready", max_retries |-> retries]

\* get_quote is called: mints and amount are chosen, the session is opened
JupGetQuote ==
    \E side \in QuoteSides, size \in QuoteSizes :
        /\ jup.pc = "ready"
        /\ jup' = [jup EXCEPT !.pc = "loop"]
                  @@ [side |-> side, size_notional |-> size, attempt |-> 0,
                      outcomes |-> <<>>, waits |-> <<>>, result |-> NoQuote]

\* One pass of `for attempt in range(self.max_retries)`: the request, then
\* the return of the quote, the uncaught ZeroDivisionError of a response
\* without amounts, or the except branch: sleep and go on, or on the last
\* attempt return the fallback
JupAttempt ==
    \E outcome \in RequestOutcomes :
        /\ jup.pc = "loop"
        /\ jup.attempt < jup.max_retries
        /\ jup' =
             IF outcome \in TransientFailures
             THEN IF jup.attempt < jup.max_retries - 1
                  THEN [jup EXCEPT
                          !.outcomes = Append(@, outcome),
                          !.waits = Append(@, wait_time(jup.attempt)),
                          !.attempt = @ + 1]
                  ELSE [jup EXCEPT
                          !.outcomes = Append(@, outcome),
                          !.attempt = @ + 1,
                          !.result = fallback_quote(jup.size_notional),
                          !.pc = "returned"]
             ELSE IF price_divisor(outcome, jup.side) = 0
             THEN [jup EXCEPT
                     !.outcomes = Append(@, outcome),
                     !.attempt = @ + 1,
                     !.pc = "raised"]
             ELSE [jup EXCEPT
                     !.outcomes = Append(@, outcome),
                     !.attempt = @ + 1,
                     !.result = response_quote(outcome, jup.side,
                                               jup.size_notional),
                     !.pc = "returned"]

\* The for loop ends without having run and the function falls off its end:
\* it returns None
JupLoopEnds ==
    /\ jup.pc = "loop"
    /\ jup.attempt >= jup.max_retries
    /\ jup' = [jup EXCEPT !.pc = "returned"]

JupInit == \E retries \in 0..MaxRetries : jup = NewJupiterQuoteClient(retries)

-----------------------------------------------------------------------------
(* The metrics file data/performance_stats.json and its readers:           *)
(* tools/health_check.py and LiveBot.health_check                          *)

\* The health checks of one run, at most
MaxChecks == 2

MissingFile == [kind |-> "missing"]

\* A file whose content is not JSON
GarbageFile == [kind |-> "garbage"]

\* A file whose JSON is an object; a key that is absent is NoValue
MetricsObject(mode, flag, trades) ==
    [kind |-> "object", mode |-> mode, circuit_breaker_triggered |-> flag,
     total_trades |-> trades]

\* What _save_metrics writes: metrics.model_dump(), the fields of
\* PerformanceMetrics, which has no mode and no circuit-breaker key
metrics_dump(b) == MetricsObject(NoValue, NoValue, b.metrics.total_trades)

\* What the file can be when a check runs: absent, damaged, JSON that is
\* not an object, the dump of a LiveBot, or a writer's object with any of
\* the keys
MetricsFiles ==
    {MissingFile, GarbageFile, [kind |-> "number"], [kind |-> "array"],
     metrics_dump(NewLiveBot)}
    \cup {MetricsObject(mode, flag, trades) :
             mode \in {NoValue, <<"simulation">>},
             flag \in {NoValue, <<FALSE>>, <<TRUE>>},
             trades \in {0, 1}}

\* json.load succeeds on the file
Parses(file) == file.kind \in {"number", "array", "object"}

\* The exit status of tools/health_check.py main() on the file
main(file) ==
    IF file.kind = "missing" THEN 1
    ELSE IF file.kind = "garbage" THEN 1
    ELSE IF file.kind = "number" THEN 1
    ELSE IF file.kind = "array" THEN 1
    ELSE IF file.mode = NoValue THEN 1
    ELSE 0

\* LiveBot.health_check()
health_check(b, file) ==
    [healthy |-> ~b.circuit_breaker_triggered,
     metrics_exist |-> file.kind # "missing",
     total_trades |-> b.metrics.total_trades,
     circuit_breaker |-> b.circuit_breaker_triggered]

HealthBots == {NewLiveBot, trip(NewLiveBot)}

\* The file is written, replaced, damaged or removed
HealthFileChanges ==
    \E file \in MetricsFiles :
        /\ health.pc = "ready"
        /\ file # health.file
        /\ Len(health.checks) < MaxChecks
        /\ health' = [health EXCEPT !.file = file]

\* tools/health_check.py runs
HealthMain ==
    /\ health.pc = "ready"
    /\ Len(health.checks) < MaxChecks
    /\ health' = [health EXCEPT
                    !.checks = Append(@, [by |-> "main",
                                          file |-> health.file,
                                          exit |-> main(health.file)])]

\* LiveBot.health_check() is called on a bot whose breaker has or has not
\* triggered
HealthOfBot ==
    \E b \in HealthBots :
        /\ health.pc = "ready"
        /\ Len(health.checks) < MaxChecks
        /\ health' = [health EXCEPT
                        !.checks = Append(@, [by |-> "bot",
                                              file |-> health.file,
                                              bot |-> b,
                                              report |-> health_check(b, health.file)])]

HealthInit == health = [pc |-> "ready", file |-> MissingFile, checks |-> <<>>]

-----------------------------------------------------------------------------
(* MarketSimulator: construction, run_simulation and run_iteration, against *)
(* the classes of src/src/core, src/src/execution and src/src/simulation    *)

\* The iterations a simulation is asked for, at most
MaxSimIterations == 3

\* The market_data_fetcher: fetch_market_state is a coroutine function that
\* returns a MarketState, a plain method that returns one, or it raises
SimFetchers == {"async", "sync", "raises"}

\* What MarketSimulator(...) is called with: whether a leverage_engine and a
\* paper_trader are passed, execute_trades, and min_confidence (x100)
SimArguments ==
    [leverage_engine : BOOLEAN, paper_trader : BOOLEAN,
     execute_trades : BOOLEAN, min_confidence : CycleMinConfidences,
     fetcher : SimFetchers, iterations : 0..MaxSimIterations]

\* MarketSimulator.__init__: without a leverage_engine it builds
\* LeverageConfig(max_position_pct=..., account_balance=...), and
\* LeverageConfig has no account_balance; without a paper_trader it builds
\* PaperTrader(initial_balance=...), whose parameter is initial_capital
construct(args) ==
    IF ~args.leverage_engine \/ ~args.paper_trader
    THEN [pc |-> "not_built", error |-> "TypeError", args |-> args]
    ELSE [pc |-> "ready", args |-> args, min_confidence |-> args.min_confidence,
          execute_trades |-> args.execute_trades, iteration |-> 0,
          decisions_blocked |-> 0, decisions_approved |-> 0,
          fetches |-> 0, iteration_reports |-> <<>>, error |-> "none"]

\* `await self.market_data_fetcher.fetch_market_state(symbol)`: the error it
\* ends with, if any
fetch_error(fetcher) ==
    IF fetcher = "raises" THEN "FetchError"
    ELSE IF fetcher = "sync" THEN "TypeError"
    ELSE "none"

\* run_iteration: the iteration is counted and the market state fetched;
\* then the dummy action for the gate names ActionType.BUY, which ActionType
\* does not have, so that no iteration gets as far as the gate
run_iteration(sim) ==
    LET counted == [sim EXCEPT !.iteration = @ + 1, !.fetches = @ + 1]
    IN  IF fetch_error(sim.args.fetcher) # "none"
        THEN [counted EXCEPT !.pc = "raised",
                             !.error = fetch_error(sim.args.fetcher)]
        ELSE [counted EXCEPT !.pc = "raised", !.error = "AttributeError"]

\* run_simulation after its loop: the market state is fetched again, the
\* positions are closed, and paper_trader.get_summary() is called, which
\* PaperTrader does not have (its method is summary)
after_loop(sim) ==
    LET fetched == [sim EXCEPT !.fetches = @ + 1]
    IN  IF fetch_error(sim.args.fetcher) # "none"
        THEN [fetched EXCEPT !.pc = "raised",
                             !.error = fetch_error(sim.args.fetcher)]
        ELSE [fetched EXCEPT !.pc = "raised", !.error = "AttributeError"]

SimConstruct ==
    /\ msim.pc = "new"
    /\ msim' = construct(msim.args)

\* run_simulation(iterations) is called
SimRunSimulation ==
    /\ msim.pc = "ready"
    /\ msim' = [msim EXCEPT !.pc = "loop"]

\* One pass of `for _ in range(iterations)`
SimIteration ==
    /\ msim.pc = "loop"
    /\ Len(msim.iteration_reports) < msim.args.iterations
    /\ msim' = run_iteration(msim)

\* The loop has run `iterations` times
SimAfterLoop ==
    /\ msim.pc = "loop"
    /\ Len(msim.iteration_reports) >= msim.args.iterations
    /\ msim' = after_loop(msim)

SimInit == \E args \in SimArguments : msim = [pc |-> "new", args |-> args]

-----------------------------------------------------------------------------
(* MarketState: what its field constraints accept, and the MarketState the  *)
(* Backtest builds from a HistoricalBar.  Prices here are in tenths of a    *)
(* cent, so that prices below one cent exist.                              *)

\* 0.01 in tenths of a cent
OneCent == 10

\* The field constraints of MarketState (gt=0, ge=0, le=1); mev_risk_score is
\* in hundredths
market_state_valid(kw) ==
    /\ kw.price > 0
    /\ kw.bid > 0
    /\ kw.ask > 0
    /\ kw.volume_24h >= 0
    /\ kw.volatility >= 0
    /\ kw.spread_bps >= 0
    /\ kw.latency_ms >= 0
    /\ kw.mev_risk_score >= 0 /\ kw.mev_risk_score <= 100
    /\ kw.liquidity_depth >= 0

\* MarketState(**kw): the model instance, or pydantic's ValidationError
MarketState(kw) ==
    IF market_state_valid(kw)
    THEN [pc |-> "built", state |-> kw]
    ELSE [pc |-> "ValidationError"]

\* The keyword arguments _bar_to_market_state passes to MarketState;
\* volatility and spread_bps in basis points
bar_keywords(bar) ==
    LET price == bar.close
        spread == (bar.high - bar.low) \div 2
        bid == price - spread \div 2
        ask == price + spread \div 2
    IN  [price |-> price, bid |-> Max(bid, OneCent), ask |-> ask,
         volume_24h |-> bar.volume, ema_short |-> price, ema_long |-> price,
         volatility |-> IF bar.close > 0
                        THEN ((bar.high - bar.low) * 10000) \div bar.close
                        ELSE 0,
         spread_bps |-> IF price > 0
                        THEN ((ask - bid) * 10000) \div price
                        ELSE 0,
         latency_ms |-> 0, mev_risk_score |-> 0,
         liquidity_depth |-> bar.volume]

\* HistoricalBars with a close above zero: highs and lows around one dollar
\* and below one cent, in either order
BarPrices == {4, 8, 996, 1000, 1004}

HistoricalBars ==
    [open : {1000}, high : BarPrices, low : BarPrices, close : {4, 1000},
     volume : {0, 200000}]

\* What a caller of MarketState passes for price, bid and ask
DirectKeywords ==
    {[price |-> p, bid |-> b, ask |-> a, volume_24h |-> 200000,
      ema_short |-> p, ema_long |-> p, volatility |-> 200, spread_bps |-> 0,
      latency_ms |-> 50, mev_risk_score |-> 10, liquidity_depth |-> 0] :
        p \in {0, 1000}, b \in {0, 996, 1004}, a \in {0, 996, 1004}}

\* Backtest._bar_to_market_state(bar)
BuildFromBar ==
    \E bar \in HistoricalBars :
        mstate' = MarketState(bar_keywords(bar))
                  @@ [by |-> "_bar_to_market_state", bar |-> bar]

\* A fetcher or a test constructs a MarketState directly
BuildDirectly ==
    \E kw \in DirectKeywords :
        mstate' = MarketState(kw) @@ [by |-> "MarketState", keywords |-> kw]

MarketStateInit == mstate = [pc |-> "none"]

-----------------------------------------------------------------------------
(* Specifications *)

GateIdle ==
    /\ gateCfg = DefaultGateConfig
    /\ gateSnap = PassingSnapshot
    /\ gateResult = [allowed |-> TRUE, reasons |-> <<>>]
    /\ gatePc = "idle"

EnsIdle ==
    /\ ensN = 0
    /\ ensMinConf = DefaultMinConfidence
    /\ ensPc = "idle"
    /\ ensCall = "none"
    /\ ensOverride = None
    /\ ensIdx = 0
    /\ ensOutcome = <<>>
    /\ ensVotes = <<>>
    /\ ensDecision = NoDecision
    /\ ensRaised = FALSE

CycIdle ==
    /\ orch = "none"
    /\ cycPc = "none"
    /\ cycIter = 0
    /\ cycLimit = 0
    /\ cycMinConf = DefaultMinConfidence
    /\ cycSnap = NoSnapshot
    /\ cycStatus = "none"
    /\ levCapital = InitialCapital
    /\ paper = NewPaperTrader
    /\ bot = NewLiveBot
    /\ botCfg = DefaultBotConfig
    /\ cycGateCalls = 0
    /\ cycEngineCalls = 0
    /\ cycOpened = 0
    /\ cycAllBlocked = TRUE

\* The LogicGate alone
InitGate == GateInit /\ EnsIdle /\ CycIdle /\ AuxIdle

NextGate ==
    \/ GateCheck /\ UNCHANGED <<ensVars, cycVars, auxVars>>
    \/ GateReturn /\ UNCHANGED <<ensVars, cycVars, auxVars>>

SpecGate == InitGate /\ [][NextGate]_vars

\* The HyperEnsemble alone
InitEnsemble == EnsInit /\ GateIdle /\ CycIdle /\ AuxIdle

NextEnsemble ==
    \/ AddEngine /\ UNCHANGED <<gateVars, cycVars, auxVars>>
    \/ RunStart /\ UNCHANGED <<gateVars, cycVars, auxVars>>
    \/ RunEngineVotes /\ UNCHANGED <<gateVars, cycVars, auxVars>>
    \/ RunEngineFails /\ UNCHANGED <<gateVars, cycVars, auxVars>>
    \/ RunFinish /\ UNCHANGED <<gateVars, cycVars, auxVars>>
    \/ AsyncStart /\ UNCHANGED <<gateVars, cycVars, auxVars>>
    \/ AsyncEngineVotes /\ UNCHANGED <<gateVars, cycVars, auxVars>>
    \/ AsyncEngineFails /\ UNCHANGED <<gateVars, cycVars, auxVars>>
    \/ AsyncEngineHangs /\ UNCHANGED <<gateVars, cycVars, auxVars>>
    \/ AsyncJoin /\ UNCHANGED <<gateVars, cycVars, auxVars>>
    \/ EnsReturn /\ UNCHANGED <<gateVars, cycVars, auxVars>>

SpecEnsemble == InitEnsemble /\ [][NextEnsemble]_vars

\* A LiveBot or a Backtest, constructed with its components and with
\* engines registered on its ensemble, about to run
CycInit(engines) ==
    /\ orch \in {"live", "backtest"}
    /\ cycPc = IF orch = "live" THEN "loop" ELSE "bar"
    /\ cycIter = 0
    /\ cycLimit \in 0..MaxCycles
    /\ cycMinConf \in CycleMinConfidences
    /\ cycSnap = NoSnapshot
    /\ cycStatus = "none"
    /\ levCapital = InitialCapital
    /\ paper = NewPaperTrader
    /\ bot = NewLiveBot
    /\ botCfg \in IF orch = "live" THEN BotConfigs ELSE {DefaultBotConfig}
    /\ cycGateCalls = 0
    /\ cycEngineCalls = 0
    /\ cycOpened = 0
    /\ cycAllBlocked = TRUE
    /\ gateCfg = DefaultGateConfig
    /\ gateSnap = PassingSnapshot
    /\ gateResult = [allowed |-> TRUE, reasons |-> <<>>]
    /\ gatePc = "idle"
    /\ ensN = engines
    /\ ensMinConf = cycMinConf
    /\ ensPc = "idle"
    /\ ensCall = "none"
    /\ ensOverride = None
    /\ ensIdx = 0
    /\ ensOutcome = <<>>
    /\ ensVotes = <<>>
    /\ ensDecision = NoDecision
    /\ ensRaised = FALSE
    /\ AuxIdle

InitCycle == CycInit(CycleEngines)

NextCycle ==
    \/ LiveCycleBegin /\ UNCHANGED auxVars
    \/ LiveLoopEnd /\ UNCHANGED auxVars
    \/ LiveFetchFails /\ UNCHANGED auxVars
    \/ LiveFetch /\ UNCHANGED auxVars
    \/ CycEngineVotes /\ UNCHANGED auxVars
    \/ CycEngineFails /\ UNCHANGED auxVars
    \/ CycRunFinish /\ UNCHANGED auxVars
    \/ LiveDecide /\ UNCHANGED auxVars
    \/ LiveSave /\ UNCHANGED auxVars
    \/ BacktestBar /\ UNCHANGED auxVars
    \/ BacktestDecide /\ UNCHANGED auxVars
    \/ BacktestFinish /\ UNCHANGED auxVars

SpecCycle == InitCycle /\ [][NextCycle]_vars


InitOnflow == OnfIdle /\ GateIdle /\ EnsIdle /\ CycIdle /\ MdpIdle /\ LevIdle
              /\ PtIdle /\ ExtIdle

NextOnflow ==
    \/ OnflowUpdate /\ UNCHANGED <<gateVars, ensVars, cycVars, mdpVars, levVars, ptVars, extVars>>
    \/ OnflowSuggest /\ UNCHANGED <<gateVars, ensVars, cycVars, mdpVars, levVars, ptVars, extVars>>

SpecOnflow == InitOnflow /\ [][NextOnflow]_vars

InitMdp == MdpIdle /\ GateIdle /\ EnsIdle /\ CycIdle /\ OnfIdle /\ LevIdle
           /\ PtIdle /\ ExtIdle

NextMdp ==
    \/ MdpUpdate
        /\ UNCHANGED <<gateVars, ensVars, cycVars, onfVars, levVars, ptVars, extVars>>
    \/ MdpSelect
        /\ UNCHANGED <<gateVars, ensVars, cycVars, onfVars, levVars, ptVars, extVars>>

SpecMdp == InitMdp /\ [][NextMdp]_vars

InitLeverage == LevInit /\ GateIdle /\ EnsIdle /\ CycIdle /\ OnfIdle /\ MdpIdle
                /\ PtIdle /\ ExtIdle

NextLeverage ==
    \/ LevCompute
           /\ UNCHANGED <<gateVars, ensVars, cycVars, onfVars, mdpVars, ptVars, extVars>>
    \/ LevRequestMargin
           /\ UNCHANGED <<gateVars, ensVars, cycVars, onfVars, mdpVars, ptVars, extVars>>
    \/ LevUpdateCapital
           /\ UNCHANGED <<gateVars, ensVars, cycVars, onfVars, mdpVars, ptVars, extVars>>

SpecLeverage == InitLeverage /\ [][NextLeverage]_vars

InitPaper == PtInit /\ GateIdle /\ EnsIdle /\ CycIdle /\ OnfIdle /\ MdpIdle
             /\ LevIdle /\ ExtIdle

NextPaper ==
    \/ PtExecute
           /\ UNCHANGED <<gateVars, ensVars, cycVars, onfVars, mdpVars, levVars, extVars>>
    \/ PtExit
           /\ UNCHANGED <<gateVars, ensVars, cycVars, onfVars, mdpVars, levVars, extVars>>
    \/ PtCloseAll
           /\ UNCHANGED <<gateVars, ensVars, cycVars, onfVars, mdpVars, levVars, extVars>>

SpecPaper == InitPaper /\ [][NextPaper]_vars

CoreIdle ==
    /\ GateIdle /\ EnsIdle /\ CycIdle
    /\ OnfIdle /\ MdpIdle /\ LevIdle /\ PtIdle

\* The vote of an engine that always votes hold at confidence 0.9
HoldVote ==
    [action_type |-> HOLD, confidence |-> 90, size_fraction |-> 0,
     leverage |-> 1]

\* A LiveBot with the default circuit-breaker limits and gate, min_confidence
\* 0.75 or lower, and an ensemble of a single engine
InitHold ==
    /\ CycInit(1)
    /\ orch = "live"
    /\ botCfg.circuit_breaker_drawdown = DefaultBotConfig.circuit_breaker_drawdown
    /\ botCfg.consecutive_losses_limit = DefaultBotConfig.consecutive_losses_limit

\* run_loop with market fetches that succeed and the engine voting hold
NextHold ==
    \/ LiveCycleBegin /\ UNCHANGED auxVars
    \/ LiveLoopEnd /\ UNCHANGED auxVars
    \/ LiveFetch /\ UNCHANGED auxVars
    \/ CycEngineReturns(HoldVote) /\ UNCHANGED auxVars
    \/ CycRunFinish /\ UNCHANGED auxVars
    \/ LiveDecide /\ UNCHANGED auxVars
    \/ LiveSave /\ UNCHANGED auxVars

SpecHold == InitHold /\ [][NextHold]_vars

\* A TWAPExecutor on its own, with a quote provider that does anything
InitTwap == TwapInit /\ CoreIdle /\ JupIdle /\ HealthIdle /\ SimIdle /\ MarketStateIdle

NextTwap ==
    \/ TwapExecute /\ UNCHANGED <<coreVars, jup, health, msim, mstate>>
    \/ TwapSlice /\ UNCHANGED <<coreVars, jup, health, msim, mstate>>
    \/ TwapReturn /\ UNCHANGED <<coreVars, jup, health, msim, mstate>>

SpecTwap == InitTwap /\ [][NextTwap]_vars

\* A JupiterQuoteClient on its own, against an endpoint that does anything
InitJupiter == JupInit /\ CoreIdle /\ TwapIdle /\ HealthIdle /\ SimIdle /\ MarketStateIdle

NextJupiter ==
    \/ JupGetQuote /\ UNCHANGED <<coreVars, twap, health, msim, mstate>>
    \/ JupAttempt /\ UNCHANGED <<coreVars, twap, health, msim, mstate>>
    \/ JupLoopEnds /\ UNCHANGED <<coreVars, twap, health, msim, mstate>>

SpecJupiter == InitJupiter /\ [][NextJupiter]_vars

\* The metrics file, its writers and the two health checks
InitHealth == HealthInit /\ CoreIdle /\ TwapIdle /\ JupIdle /\ SimIdle /\ MarketStateIdle

NextHealth ==
    \/ HealthFileChanges /\ UNCHANGED <<coreVars, twap, jup, msim, mstate>>
    \/ HealthMain /\ UNCHANGED <<coreVars, twap, jup, msim, mstate>>
    \/ HealthOfBot /\ UNCHANGED <<coreVars, twap, jup, msim, mstate>>

SpecHealth == InitHealth /\ [][NextHealth]_vars

\* A MarketSimulator built and run once
InitSimulator == SimInit /\ CoreIdle /\ TwapIdle /\ JupIdle /\ HealthIdle /\ MarketStateIdle

NextSimulator ==
    \/ SimConstruct /\ UNCHANGED <<coreVars, twap, jup, health, mstate>>
    \/ SimRunSimulation /\ UNCHANGED <<coreVars, twap, jup, health, mstate>>
    \/ SimIteration /\ UNCHANGED <<coreVars, twap, jup, health, mstate>>
    \/ SimAfterLoop /\ UNCHANGED <<coreVars, twap, jup, health, mstate>>

SpecSimulator == InitSimulator /\ [][NextSimulator]_vars

\* MarketStates being constructed, by the Backtest from bars and directly
InitMarketState ==
    MarketStateInit /\ CoreIdle /\ TwapIdle /\ JupIdle /\ HealthIdle /\ SimIdle

NextMarketState ==
    \/ BuildFromBar /\ UNCHANGED <<coreVars, twap, jup, health, msim>>
    \/ BuildDirectly /\ UNCHANGED <<coreVars, twap, jup, health, msim>>

SpecMarketState == InitMarketState /\ [][NextMarketState]_vars

-----------------------------------------------------------------------------
(* Properties of the LogicGate *)

\* The five rules as the specification words them, on the snapshot and the
\* thresholds of the call
MevRule == gateSnap.mev_risk_score > gateCfg.mev_risk_threshold
LatencyRule == gateSnap.latency_ms > gateCfg.max_latency_ms
VolumeRule == gateSnap.volume_24h < gateCfg.min_volume_24h
PriceJumpRule ==
    /\ gateSnap.ema_short # None
    /\ \/ (gateSnap.price - gateSnap.ema_short) * 100
            > gateCfg.max_price_jump_pct * gateSnap.ema_short
       \/ (gateSnap.ema_short - gateSnap.price) * 100
            > gateCfg.max_price_jump_pct * gateSnap.ema_short
EmaRule ==
    /\ gateSnap.ema_short # None
    /\ gateSnap.ema_long # None
    /\ \/ (gateSnap.ema_short - gateSnap.ema_long) * 100
            > gateCfg.max_ema_deviation_pct * gateSnap.ema_long
       \/ (gateSnap.ema_long - gateSnap.ema_short) * 100
            > gateCfg.max_ema_deviation_pct * gateSnap.ema_long

GateReasons == Range(gateResult.reasons)

ViolatedRules ==
    {r \in {HIGH_MEV_RISK, HIGH_LATENCY, LOW_VOLUME, PRICE_JUMP, EMA_DEVIATION} :
        \/ r = HIGH_MEV_RISK /\ MevRule
        \/ r = HIGH_LATENCY /\ LatencyRule
        \/ r = LOW_VOLUME /\ VolumeRule
        \/ r = PRICE_JUMP /\ PriceJumpRule
        \/ r = EMA_DEVIATION /\ EmaRule}

\* C1: after check(snapshot), each of HIGH_MEV_RISK, HIGH_LATENCY, LOW_VOLUME,
\* PRICE_JUMP and EMA_DEVIATION is among the reasons exactly when its rule's
\* condition holds of the snapshot, and allowed is false whenever one holds.
C1_ReasonIffRule ==
    gatePc = "checked" =>
        /\ (HIGH_MEV_RISK \in GateReasons) <=> MevRule
        /\ (HIGH_LATENCY \in GateReasons) <=> LatencyRule
        /\ (LOW_VOLUME \in GateReasons) <=> VolumeRule
        /\ (PRICE_JUMP \in GateReasons) <=> PriceJumpRule
        /\ (EMA_DEVIATION \in GateReasons) <=> EmaRule
        /\ (MevRule \/ LatencyRule \/ VolumeRule \/ PriceJumpRule \/ EmaRule)
              => gateResult.allowed = FALSE

\* A check that blocked a snapshot whose price fell below its short EMA by
\* more than the limit, and whose other rules are mixed
C1_Witness ==
    /\ gatePc = "checked"
    /\ gateSnap.ema_short # None
    /\ gateSnap.price < gateSnap.ema_short
    /\ PRICE_JUMP \in GateReasons
    /\ HIGH_MEV_RISK \in GateReasons
    /\ HIGH_LATENCY \notin GateReasons
    /\ gateResult.allowed = FALSE

\* C2: check reports every violated rule once (the reason list is as long
\* as the number of rules the snapshot violates), and allowed is true iff
\* the reason list is empty.
C2_Cumulative ==
    gatePc = "checked" =>
        /\ Len(gateResult.reasons) = Cardinality(ViolatedRules)
        /\ GateReasons = ViolatedRules
        /\ gateResult.allowed <=> (gateResult.reasons = <<>>)

\* A check of a snapshot that violates three rules or more
C2_Witness ==
    /\ gatePc = "checked"
    /\ Cardinality(ViolatedRules) >= 3
    /\ Len(gateResult.reasons) >= 3
    /\ gateResult.allowed = FALSE

-----------------------------------------------------------------------------
(* Properties of the HyperEnsemble *)

\* A call that has returned
Returned == ensPc = "done" /\ ensDecision # NoDecision

\* The engines whose invocation returned an Action, and what they voted
Survivors == {i \in Engines : ensOutcome[i].outcome = "voted"}
KindOf(i) == ensOutcome[i].action.action_type
ConfOf(i) == ensOutcome[i].action.confidence

RECURSIVE ConfSum(_)
ConfSum(S) ==
    IF S = {} THEN 0
    ELSE LET i == CHOOSE x \in S : TRUE
         IN  ConfOf(i) + ConfSum(S \ {i})

Voters(k) == {i \in Survivors : KindOf(i) = k}
KindSum(k) == ConfSum(Voters(k))
TotalSum == ConfSum(Survivors)
VotedKinds == {KindOf(i) : i \in Survivors}
FirstVoter(k) == CHOOSE i \in Voters(k) : \A j \in Voters(k) : i <= j

\* The kinds with the highest summed confidence, and among them the one
\* whose first voter was registered first
TopKinds == {k \in VotedKinds : \A k2 \in VotedKinds : KindSum(k) >= KindSum(k2)}
ClaimedWinner ==
    CHOOSE k \in TopKinds : \A k2 \in TopKinds : FirstVoter(k) <= FirstVoter(k2)

Consensus == ensDecision.consensus_confidence

\* C4: when no vote remains (no engine registered, or every registered
\* engine failed) the call returns a HOLD decision with consensus
\* confidence 0 and status blocked.
C4_NoVotesBlockedHold ==
    (ensPc = "done" /\ Survivors = {}) =>
        /\ ensDecision # NoDecision
        /\ ensDecision.status = BLOCKED
        /\ ensDecision.action.action_type = HOLD
        /\ Consensus.num = 0
        /\ ensDecision.action.confidence.num = 0

\* run has returned after each of two or more registered engines failed
C4_Witness ==
    /\ Returned
    /\ ensCall = "run"
    /\ ensN >= 2
    /\ \A i \in Engines : ensOutcome[i] = Failed
    /\ ensDecision.status = BLOCKED

\* C5: the consensus confidence of every returned Decision is in [0,1].
C5_ConfidenceInUnitInterval ==
    Returned =>
        /\ Consensus.den > 0
        /\ 0 <= Consensus.num
        /\ Consensus.num <= Consensus.den

\* A Decision aggregated from votes of different kinds, one of them with
\* confidence 0 and two with confidence 1.0
C5_Witness ==
    /\ Returned
    /\ Cardinality(VotedKinds) >= 2
    /\ \E i \in Survivors : ConfOf(i) = 0
    /\ \E i, j \in Survivors : i # j /\ ConfOf(i) = 100 /\ ConfOf(j) = 100
    /\ Consensus.num > 0

\* The items of the votes dict made of the engines that did not fail, in
\* registration order
SurvivorVotes == GatheredVotes(ensOutcome, 1, ensN)

\* C6: a call in which engines failed still returns a Decision, no
\* exception reaches the caller, and the Decision is the one computed from
\* exactly the votes of the engines that did not fail.
C6_FailedEngineDropped ==
    ensPc = "done" =>
        /\ ensRaised = FALSE
        /\ ensDecision # NoDecision
        /\ {v.name : v \in Range(ensDecision.engine_votes)} = Survivors
        /\ \A v \in Range(ensDecision.engine_votes) :
              v.action = ensOutcome[v.name].action
        /\ Len(ensDecision.engine_votes) = Cardinality(Survivors)
        /\ Survivors # {} =>
              /\ ensDecision.action = aggregate_votes(SurvivorVotes).action
              /\ Consensus = aggregate_votes(SurvivorVotes).confidence
        /\ Survivors = {} => ensDecision.status = BLOCKED

\* run has returned a Decision although the first engine failed; a later
\* engine's vote is in it
C6_Witness ==
    /\ Returned
    /\ ensCall = "run"
    /\ ensN >= 2
    /\ ensOutcome[1] = Failed
    /\ Survivors # {}
    /\ ensDecision.engine_votes # <<>>

\* C7 as claimed: the consensus kind is the kind with the highest summed
\* confidence over the surviving votes, ties going to the kind whose voter
\* was registered first.
C7_Original ==
    (Returned /\ Survivors # {}) =>
        ensDecision.action.action_type = ClaimedWinner

\* C7 as amended: that holds when the surviving votes' total confidence is
\* positive; when every surviving vote has confidence 0 the consensus kind
\* is HOLD, whatever was voted.
C7_WinnerWhenPositive ==
    (Returned /\ Survivors # {}) =>
        /\ TotalSum > 0 => ensDecision.action.action_type = ClaimedWinner
        /\ TotalSum = 0 => ensDecision.action.action_type = HOLD

\* Two kinds tie for the highest positive sum, and the winner's first voter
\* is registered before the other kind's
C7_Witness ==
    /\ Returned
    /\ Cardinality(TopKinds) >= 2
    /\ TotalSum > 0
    /\ ensDecision.action.action_type = ClaimedWinner
    /\ \E k \in TopKinds : FirstVoter(k) > FirstVoter(ClaimedWinner)

\* votes_for_winner / total_votes of the claimed agreement factor
WinnerVotes == Cardinality(Voters(ensDecision.action.action_type))
TotalVotes == Cardinality(Survivors)

Unanimous ==
    /\ ensN >= 1
    /\ Survivors = Engines
    /\ Cardinality(VotedKinds) = 1

TheKind == CHOOSE k \in VotedKinds : TRUE

\* consensus >= 0.7 * (sum of the confidences / number of engines), the
\* confidences being x100
AtLeastFloor ==
    Consensus.num * 100 * 100 * ensN >= 70 * TotalSum * Consensus.den

\* C9 as claimed: when all registered engines vote the same kind, whatever
\* their confidences (all zero included), the consensus kind is that kind
\* and the consensus confidence is at least 0.7 times the average.
C9_Original ==
    (Returned /\ Unanimous) =>
        /\ ensDecision.action.action_type = TheKind
        /\ AtLeastFloor

\* C9 as amended: the consensus kind is that kind when at least one
\* confidence is positive, and HOLD when all are zero; the confidence is at
\* least 0.7 times the average in both cases.
C9_UnanimousWhenPositive ==
    (Returned /\ Unanimous) =>
        /\ TotalSum > 0 => ensDecision.action.action_type = TheKind
        /\ TotalSum = 0 => ensDecision.action.action_type = HOLD
        /\ AtLeastFloor

\* Two or more engines all voted long, one of them with confidence 0 and
\* one with a positive confidence
C9_Witness ==
    /\ Returned
    /\ Unanimous
    /\ ensN >= 2
    /\ TheKind = LONG
    /\ \E i \in Survivors : ConfOf(i) = 0
    /\ \E i \in Survivors : ConfOf(i) > 0
    /\ ensDecision.action.action_type = LONG

RECURSIVE CountOf(_, _)
CountOf(s, x) ==
    IF s = <<>> THEN 0
    ELSE (IF s[1] = x THEN 1 ELSE 0) + CountOf(Tail(s), x)

\* The threshold run_and_assert is to enforce: its argument, or the
\* ensemble's own min_confidence when none is given
Threshold == IF ensOverride # None THEN ensOverride ELSE ensMinConf

BelowThreshold == Consensus.num * 100 < Threshold * Consensus.den

\* C10: run_and_assert never returns an approved Decision whose consensus
\* confidence is below the threshold: below it the status is blocked and
\* LOW_CONFIDENCE is among the block reasons exactly once.
C10_AssertBlocksBelowThreshold ==
    (Returned /\ ensCall = "run_and_assert") =>
        /\ BelowThreshold =>
              /\ ensDecision.status = BLOCKED
              /\ CountOf(ensDecision.block_reasons, LOW_CONFIDENCE) = 1
        /\ ensDecision.status = APPROVED => ~BelowThreshold

\* run_and_assert blocked, because of its argument, a Decision that run
\* alone approves (run compares with the ensemble's own min_confidence)
C10_Witness ==
    /\ Returned
    /\ ensCall = "run_and_assert"
    /\ ensOverride # None
    /\ Survivors # {}
    /\ Consensus.num * 100 >= ensMinConf * Consensus.den
    /\ BelowThreshold
    /\ ensDecision.status = BLOCKED
    /\ ensDecision.block_reasons = <<LOW_CONFIDENCE>>

-----------------------------------------------------------------------------
(* Properties of the orchestrators *)

\* The gate of the cycle in progress has been checked and has blocked
GateBlockedCycle == cycGateCalls = 1 /\ ~gateResult.allowed

\* C3: in every cycle of LiveBot.run_loop and of Backtest.run the gate is
\* checked before any engine is invoked: an engine has been invoked, or the
\* ensemble is at work, only in a cycle whose gate check allowed the
\* snapshot.  A cycle the gate blocked ends there, with the blocked status,
\* no engine invoked and no trade opened; and as long as every gate check
\* of the run has blocked, the paper trader has no trade and its capital is
\* the initial one.
C3_GateShortCircuits ==
    /\ (cycEngineCalls > 0 \/ ensPc # "idle")
         => (cycGateCalls = 1 /\ gatePc = "checked" /\ gateResult.allowed)
    /\ GateBlockedCycle
         => /\ cycEngineCalls = 0
            /\ cycOpened = 0
            /\ cycPc \in {"save", "loop", "stopped", "bar", "finished"}
            /\ cycStatus \in {"blocked_by_logic_gate", "blocked",
                              "backtest_complete"}
    /\ cycAllBlocked
         => /\ paper.trades = <<>>
            /\ paper.current_capital = InitialCapital
            /\ levCapital = InitialCapital

\* A cycle the gate blocked, in a run whose earlier cycle opened a trade
C3_Witness ==
    /\ GateBlockedCycle
    /\ cycStatus \in {"blocked_by_logic_gate", "blocked"}
    /\ Len(paper.trades) > 0
    /\ cycIter > 0

-----------------------------------------------------------------------------
(* Properties of run_async's fan-out *)

\* C11: an engine that never completes does not block run_async: while the
\* call awaits its engines, with one of them hung and another one having
\* returned its Action, the call can always go on, by an engine completing
\* or failing, by the hung engine being timed out, or by returning the
\* Decision of the engines that completed.
C11_HungEngineDoesNotBlock ==
    (/\ ensCall = "run_async"
     /\ ensPc = "gather"
     /\ \E i \in Engines : ensOutcome[i] = Hung
     /\ \E i \in Engines : ensOutcome[i].outcome = "voted")
        => ENABLED NextEnsemble

-----------------------------------------------------------------------------
(* Properties of the OnflowEngine *)

C13_AllocationBounded ==
    onfPc = "suggested"
        => /\ FracGeq(onfResult, OnflowConfig.min_allocation)
           /\ onfResult.num * 100
                  <= OnflowConfig.max_allocation * onfResult.den

\* Two updates recorded and an estimate above max_allocation clamped to it
C13_Witness ==
    /\ onfPc = "suggested"
    /\ onf.trade_count >= 2
    /\ onf.ewma_avg_return[1] > 0
    /\ onfResult = Frac(OnflowConfig.max_allocation, 100)

-----------------------------------------------------------------------------
(* Properties of the MDPDecision *)

-----------------------------------------------------------------------------
(* Properties of the LeverageEngine *)

\* C15: compute_position_size never returns an effective_leverage above the
\* configured max_leverage, nor a position_size above
\* max_position_pct * current_capital * max_leverage.
C15_SizeAndLeverageCapped ==
    levCall.op = "compute_position_size"
        => /\ levCall.result.leverage.num
                  <= lev.config.max_leverage * levCall.result.leverage.den
           /\ levCall.result.size * 10000
                  <= lev.config.max_position_pct * lev.current_capital
                         * lev.config.max_leverage

\* C16: request_margin returns a failure result when the leverage is above
\* max_leverage or the collateral above current_capital, and otherwise a
\* success result whose buying_power is collateral * leverage; it always
\* returns a result, and current_capital is what it was before the call.
C16_MarginResult ==
    levCall.op = "request_margin"
        => LET refused ==
                   \/ levCall.leverage.num
                          > lev.config.max_leverage * levCall.leverage.den
                   \/ levCall.collateral_amount > levCall.capital_before
           IN  /\ levCall.result.success \in BOOLEAN
               /\ levCall.result.success = ~refused
               /\ levCall.result.success
                      => /\ levCall.result.buying_power * levCall.leverage.den
                               = levCall.collateral_amount
                                     * levCall.leverage.num
                         /\ levCall.result.collateral_posted
                                = levCall.collateral_amount
                         /\ levCall.result.leverage_granted = levCall.leverage
               /\ lev.current_capital = levCall.capital_before

\* A request refused for its collateral alone, and the capital untouched
C16_Witness ==
    /\ levCall.op = "request_margin"
    /\ levCall.collateral_amount > lev.current_capital
    /\ levCall.leverage = Frac(5, 2)
    /\ lev.current_capital = 100000
    /\ ~levCall.result.success

-----------------------------------------------------------------------------
(* Properties of the PaperTrader *)

\* Trade i was opened on a snapshot with bid = ask and no volatility, and
\* closed by the very next call on the same snapshot
RoundTrip(i) ==
    /\ trader.trades[i].is_closed
    /\ ptLog[i].closed = ptLog[i].opened + 1
    /\ ptLog[i].exit_ms = ptLog[i].entry_ms
    /\ ptLog[i].entry_ms.bid = ptLog[i].entry_ms.ask
    /\ ptLog[i].entry_ms.volatility = 0

\* C17 as stated: a position opened and at once closed at the same price,
\* with no volatility, has pnl = -(entry_fee + exit_fee).
C17_RoundTripLosesFees ==
    \A i \in 1..Len(trader.trades) :
        RoundTrip(i) => trader.trades[i].pnl = <<-trader.trades[i].fees>>

\* C17, amended: on a trader with base_slippage_bps = 0, a position opened
\* and at once closed at the same price takes entry_fee + exit_fee from the
\* capital and nothing else; the trade's pnl is -exit_fee, the entry fee
\* having been charged to the capital when the position was opened.
C17_RoundTripNoSlippage ==
    \A i \in 1..Len(trader.trades) :
        (RoundTrip(i) /\ trader.base_slippage_bps = 0)
            => LET fee == FeeOf(trader, trader.trades[i].size_usd)
               IN  /\ trader.trades[i].fees = fee + fee
                   /\ trader.trades[i].pnl = <<-fee>>
                   /\ trader.trades[i].exit_price = <<trader.trades[i].entry_price>>
                   /\ (\A j \in 1..Len(trader.trades) :
                          j # i => ptLog[j].closed # ptLog[i].closed)
                          => ptLog[i].capital_after
                                 = ptLog[i].capital_before - (fee + fee)

C17_Witness ==
    /\ Len(trader.trades) = 1
    /\ RoundTrip(1)
    /\ trader.base_slippage_bps = 0
    /\ trader.trades[1].size_usd = 10000
    /\ trader.trades[1].fees = 10
    /\ trader.current_capital = InitialCapital - 10

\* What holds of a trader's trades in every state
PaperTraderInv ==
    /\ \A i \in 1..Len(trader.trades) :
        /\ (\E k \in 1..Len(trader.open_positions) :
               trader.open_positions[k] = trader.trades[i].trade_id)
               <=> ~trader.trades[i].is_closed
        /\ trader.trades[i].is_closed
               => /\ trader.trades[i].exit_price # NoValue
                  /\ trader.trades[i].pnl # NoValue
        /\ \A j \in 1..Len(trader.trades) :
               trader.trades[i].trade_id = trader.trades[j].trade_id => i = j
    /\ \A k \in 1..Len(trader.open_positions) :
           \E i \in 1..Len(trader.trades) :
               trader.trades[i].trade_id = trader.open_positions[k]

\* A closed trade is still there, with the same id and closed, after a step
ClosedStaysClosed ==
    \A i \in 1..Len(trader.trades) :
        trader.trades[i].is_closed
            => /\ i <= Len(trader'.trades)
               /\ trader'.trades[i].trade_id = trader.trades[i].trade_id
               /\ trader'.trades[i].is_closed

\* C18: after any sequence of simulate_execution, record_exit and
\* close_all_positions calls, a trade is in open_positions if and only if it
\* is not closed, trade ids are unique, a closed trade has its exit price and
\* pnl set, and is_closed never goes back from true to false.
C18_TradeLifecycle == []PaperTraderInv /\ [][ClosedStaysClosed]_vars

\* One trade closed and a later one still open
C18_Witness ==
    /\ Len(trader.trades) = 2
    /\ trader.trades[1].is_closed
    /\ ~trader.trades[2].is_closed
    /\ trader.open_positions = <<2>>

-----------------------------------------------------------------------------
(* Properties of the LiveBot's circuit breaker *)

\* In every state of the LiveBot's loop: run_cycle is past its first step
\* only if the breaker check has just returned false, and a cycle that has
\* returned circuit_breaker_triggered has set the flag
BreakerBeforeFetch ==
    orch = "live"
        => /\ cycPc \in {"fetch", "gate", "vote"}
                  => /\ ~check_circuit_breaker(bot, botCfg)
                     /\ ~bot.circuit_breaker_triggered
           /\ cycStatus = "circuit_breaker_triggered"
                  => bot.circuit_breaker_triggered

\* A step taken with the flag set: the flag stays set, run_cycle is not
\* entered again, and gate, ensemble, capital and paper trader are untouched
HaltedOnceTripped ==
    (orch = "live" /\ bot.circuit_breaker_triggered)
        => /\ bot'.circuit_breaker_triggered
           /\ cycPc' \in {"loop", "stopped"}
           /\ cycStatus' = "circuit_breaker_triggered"
           /\ UNCHANGED <<gateVars, ensVars, paper, levCapital, cycSnap,
                          cycGateCalls, cycEngineCalls, cycOpened>>

\* C19: the circuit breaker is checked before the market fetch, and once a
\* cycle has returned circuit_breaker_triggered the loop performs no further
\* fetch, gate check, engine vote or execution, and the flag is never reset.
C19_BreakerHaltsLoop == []BreakerBeforeFetch /\ [][HaltedOnceTripped]_vars

\* The loop stopped by the breaker with iterations left
C19_Witness ==
    /\ orch = "live"
    /\ cycPc = "stopped"
    /\ bot.circuit_breaker_triggered
    /\ cycStatus = "circuit_breaker_triggered"
    /\ cycIter < cycLimit

\* The paper trader's loss since the start, in millionths of the initial
\* capital
LossPpm ==
    ((paper.initial_capital - paper.current_capital) * 1000000)
        \div paper.initial_capital

\* C20: once the simulated trades have lost more than the configured
\* drawdown limit, the next cycle returns circuit_breaker_triggered: no
\* cycle gets to its market fetch with such a loss on the books.
C20_TripsOnLosses ==
    (orch = "live" /\ cycPc = "fetch")
        => LossPpm < botCfg.circuit_breaker_drawdown

-----------------------------------------------------------------------------
(* Properties of LiveBot.run_cycle and run_loop as a whole *)

\* C21: no condition in a cycle crashes the orchestrator: whatever the fetch,
\* the gate and the ensemble give, run_cycle returns a status record and
\* never leaves by an exception.
C21_CycleNeverRaises ==
    orch = "live" => cycPc # "crashed"

\* C22: with a single engine always voting hold at confidence 0.9 and
\* min_confidence 0.75, every cycle ends blocked or with a hold decision (a
\* hold decision whenever the gate allowed the snapshot), and the paper
\* trader's capital and ledger and the leverage engine's capital are what
\* they were when the bot was built.
C22_HoldChangesNothing ==
    /\ paper = NewPaperTrader
    /\ levCapital = InitialCapital
    /\ cycOpened = 0
    /\ cycStatus \in {"none", "blocked_by_logic_gate", "blocked_by_ensemble",
                      "hold_decision"}
    /\ (cycPc \in {"save", "loop", "stopped"} /\ cycEngineCalls > 0)
           => cycStatus = "hold_decision"
    /\ cycPc # "crashed"

\* Two cycles run, the last one on a snapshot the gate allowed, ended by the
\* hold decision
C22_Witness ==
    /\ cycMinConf = DefaultMinConfidence
    /\ cycPc = "stopped"
    /\ cycIter = 2
    /\ cycStatus = "hold_decision"
    /\ cycEngineCalls = 1
    /\ paper = NewPaperTrader
    /\ levCapital = InitialCapital

\* C23: in Backtest.run, a bar that the gate blocks, whose decision is not
\* approved, or whose consensus action is HOLD opens no trade and leaves the
\* paper trader and the leverage engine's capital as they were.
C23_BacktestHoldOrRejectionKeepsCapital ==
    [][(/\ orch = "backtest"
        /\ cycPc' = "bar"
        /\ \/ cycPc = "bar" /\ cycIter' = cycIter + 1
           \/ /\ cycPc = "vote"
              /\ \/ ensDecision.status # APPROVED
                 \/ ensDecision.action.action_type = HOLD)
       => (/\ paper' = paper
           /\ levCapital' = levCapital
           /\ cycOpened' = 0)]_vars

\* The cycles run_loop has started: the finished iterations and the one that
\* is under way or that raised
CyclesRun == cycIter + (IF cycPc \in {"loop", "stopped"} THEN 0 ELSE 1)

\* C24: run_loop(iterations = n) ends after at most n cycles, after exactly
\* n when the circuit breaker did not trip, and it has saved the metrics
\* after every cycle it ran (cycIter counts the saves).
C24_LoopRunsItsCycles ==
    (orch = "live" /\ cycPc \in {"stopped", "crashed"}) =>
        /\ CyclesRun <= cycLimit
        /\ ~bot.circuit_breaker_triggered => CyclesRun = cycLimit
        /\ cycIter = CyclesRun

-----------------------------------------------------------------------------
(* Properties of the TWAPExecutor and the quote client *)

\* The slices of the call so far whose quote was above the tolerance
OverTolerance(k) ==
    /\ twap.outcomes[k] # QuoteRaises
    /\ quoted_slippage_bps(twap.outcomes[k]) > twap.max_slippage_bps

\* C25: execute returns one record per slice, in slice order; a slice is
\* filled exactly when its quote was obtained and its quoted slippage is not
\* above the tolerance; when every quote is above the tolerance no slice is
\* filled and every record carries the tolerance-exceeded reason.
C25_OneRecordPerSlice ==
    twap.pc \in {"loop", "returned"} =>
        /\ Len(twap.reports) = twap.i
        /\ twap.pc = "returned" => Len(twap.reports) = twap.num_slices
        /\ \A k \in 1..Len(twap.reports) :
              /\ twap.reports[k].success <=>
                    /\ twap.outcomes[k] # QuoteRaises
                    /\ quoted_slippage_bps(twap.outcomes[k])
                          <= twap.max_slippage_bps
              /\ twap.reports[k].success =>
                    /\ twap.reports[k].transaction_id = k - 1
                    /\ twap.reports[k].execution_price
                          = <<twap.outcomes[k].price>>
              /\ twap.reports[k].timestamp >= twap.quoted_at[k]
              /\ k > 1 => twap.quoted_at[k] >= twap.quoted_at[k - 1]
              /\ OverTolerance(k) =>
                    twap.reports[k].error_message = SlippageExceedsMax
        /\ (\A k \in 1..Len(twap.reports) : OverTolerance(k)) =>
              \A k \in 1..Len(twap.reports) :
                  /\ ~twap.reports[k].success
                  /\ twap.reports[k].error_message = SlippageExceedsMax

C25_Witness ==
    /\ twap.pc = "returned"
    /\ twap.num_slices = 3
    /\ twap.max_slippage_bps = DefaultMaxSlippageBps
    /\ \A k \in 1..3 : OverTolerance(k) /\ ~twap.reports[k].success

\* C26: a slice rejected for its slippage is followed by the inter-slice
\* delay before the next slice's quote is requested, as a filled slice is.
C26_DelayAfterRejectedSlice ==
    twap.pc \in {"loop", "returned"} =>
        \A k \in 1..(Len(twap.quoted_at) - 1) :
            OverTolerance(k) =>
                twap.quoted_at[k + 1] - twap.quoted_at[k]
                    >= twap.slice_delay_sec

\* The requests of the call so far all failed transiently, but possibly the
\* last one
OnlyTransientFailures ==
    \A k \in 1..Len(jup.outcomes) :
        \/ jup.outcomes[k] \in TransientFailures
        \/ /\ k = Len(jup.outcomes)
           /\ price_divisor(jup.outcomes[k], jup.side) # 0

\* C27: whatever transient failures the requests meet, get_quote makes at
\* most max_retries attempts, sleeps 2^attempt seconds between consecutive
\* attempts, and returns a quote record: the fallback quote when the last
\* attempt failed too.
C27_RetriesThenFallback ==
    (jup.pc \in {"loop", "returned", "raised"} /\ OnlyTransientFailures) =>
        /\ Len(jup.outcomes) <= jup.max_retries
        /\ \A k \in 1..Len(jup.waits) : jup.waits[k] = Pow(2, k - 1)
        /\ jup.pc # "raised"
        /\ jup.pc = "returned" =>
              /\ Len(jup.waits) = Len(jup.outcomes) - 1
              /\ jup.result # NoQuote
              /\ (\A k \in 1..Len(jup.outcomes) :
                      jup.outcomes[k] \in TransientFailures)
                    => jup.result = fallback_quote(jup.size_notional)

-----------------------------------------------------------------------------
(* Properties of the health check *)

\* C28: the health check script reports unhealthy (a non-zero exit status)
\* when the metrics file is missing or does not parse, and also when it
\* parses and carries a circuit_breaker_triggered flag that is set.
C28_HealthCheckUnhealthy ==
    health.pc = "ready" =>
        \A k \in 1..Len(health.checks) :
            LET c == health.checks[k]
            IN  c.by = "main" =>
                  /\ ~Parses(c.file) => c.exit # 0
                  /\ (/\ c.file.kind = "object"
                      /\ c.file.circuit_breaker_triggered = <<TRUE>>)
                        => c.exit # 0

-----------------------------------------------------------------------------
(* Properties of the MarketSimulator *)

\* C29: a MarketSimulator run of n iterations, on a fetcher that returns
\* market states, ends without an error, having made exactly n iterations
\* and at least n fetches, with n per-iteration records in its report.
C29_SimulationCompletes ==
    (msim.pc \in {"raised", "returned"} /\ msim.args.fetcher = "async") =>
        /\ msim.pc = "returned"
        /\ msim.iteration = msim.args.iterations
        /\ msim.fetches >= msim.args.iterations
        /\ Len(msim.iteration_reports) = msim.args.iterations

-----------------------------------------------------------------------------
(* Properties of MarketState *)

\* C30: every MarketState that is constructed, directly or by the Backtest
\* from a bar whose close is above zero, has ask >= bid > 0.
C30_AskNotBelowBid ==
    mstate.pc = "built" =>
        /\ mstate.state.bid > 0
        /\ mstate.state.ask >= mstate.state.bid

-----------------------------------------------------------------------------
(* Further properties of the HyperEnsemble *)

\* C31: every Decision that run, run_async or run_and_assert returns has an
\* empty block-reason list exactly when its status is approved.
C31_NoReasonIffApproved ==
    (ensPc = "done" /\ ~ensRaised) =>
        /\ ensDecision.status \in {APPROVED, BLOCKED}
        /\ ensDecision.block_reasons = <<>> <=> ensDecision.status = APPROVED

\* run_and_assert blocked, by its override, a Decision that run had approved
C31_Witness ==
    /\ ensPc = "done"
    /\ ensCall = "run_and_assert"
    /\ ensOverride = 90
    /\ ensVotes # <<>>
    /\ DecisionOf(ensVotes, ensMinConf).status = APPROVED
    /\ ensDecision.status = BLOCKED
    /\ ensDecision.block_reasons = <<LOW_CONFIDENCE>>

\* C32: when run_and_assert is given a min_confidence, that argument alone
\* decides: with at least one vote and a positive total confidence the
\* Decision is approved exactly when the consensus confidence is not below
\* the argument, whatever min_confidence the ensemble was built with.
C32_OverrideAloneDecides ==
    (/\ Returned
     /\ ensCall = "run_and_assert"
     /\ ensOverride # None
     /\ Survivors # {}
     /\ ConfSum(Survivors) > 0) =>
        (ensDecision.status = APPROVED <=>
            Consensus.num * 100 >= ensOverride * Consensus.den)

\* The votes of the engines in S, in the order of their registration
RECURSIVE VotesInOrder(_)
VotesInOrder(S) ==
    IF S = {} THEN <<>>
    ELSE LET i == CHOOSE x \in S : \A y \in S : x <= y
         IN  <<[name |-> i, action |-> ensOutcome[i].action]>>
             \o VotesInOrder(S \ {i})

\* C33: run and run_async return the same Decision for the same engines and
\* the same per-engine outcomes: the Decision either returns is the one
\* determined by the surviving votes taken in registration order, in
\* whatever order the concurrently invoked engines completed.
C33_RunAndAsyncAgree ==
    (Returned /\ ensCall \in {"run", "run_async"}) =>
        /\ ensDecision.engine_votes = VotesInOrder(Survivors)
        /\ ensDecision = DecisionOf(VotesInOrder(Survivors), ensMinConf)

\* run_async returned after one engine failed and two engines tied with
\* different kinds: the first-registered kind won, as in run
C33_Witness ==
    /\ Returned
    /\ ensCall = "run_async"
    /\ ensN = 3
    /\ ensOutcome[1] = Failed
    /\ 2 \in Survivors /\ 3 \in Survivors
    /\ KindOf(2) = SHORT /\ KindOf(3) = LONG
    /\ ConfOf(2) = 50 /\ ConfOf(3) = 50
    /\ ensDecision.action.action_type = SHORT


-----------------------------------------------------------------------------
(* Further properties of the MDPDecision *)

\* C34: over any sequence of select_action and update calls the Q-table only
\* grows: no bucket is deleted, every bucket present holds a value for each
\* of the five action kinds, and a select_action call leaves the value of
\* every (bucket, action kind) entry already present as it was.
C34_QTableOnlyGrows ==
    [][/\ DOMAIN q_table \subseteq DOMAIN q_table'
       /\ \A h \in DOMAIN q_table' :
              DOMAIN q_table'[h] = ActionType /\ Cardinality(ActionType) = 5
       /\ mdpUpdates' = mdpUpdates
              => \A h \in DOMAIN q_table : q_table'[h] = q_table[h]]_vars

\* One update on one bucket, and a second bucket that select_action added
C34_Witness ==
    /\ mdpUpdates = 1
    /\ mdpLast.state_hash = mdpLast.next_state_hash
    /\ Cardinality(DOMAIN q_table) = 2
    /\ q_table[mdpLast.state_hash][LONG] = mdpLast.new_q


\* C35: the bucket key of a snapshot is a mixed-radix encoding of its three
\* bins: the price, volatility and spread bin of the snapshot an update is
\* called with each lie in 0..state_bins-1, and a snapshot that gets the same
\* key has the same three bins.
C35_KeyIsMixedRadix ==
    mdpUpdates > 0 =>
        LET ms == mdpLast.market_state[1]
        IN  /\ price_bin(ms) \in 0..(StateBins - 1)
            /\ vol_bin(ms) \in 0..(StateBins - 1)
            /\ spread_bin(ms) \in 0..(StateBins - 1)
            /\ mdpLast.state_hash = _discretize_state(ms)
            /\ \A other \in MdpSnapshots :
                   _discretize_state(other) = mdpLast.state_hash
                       => /\ price_bin(other) = price_bin(ms)
                          /\ vol_bin(other) = vol_bin(ms)
                          /\ spread_bin(other) = spread_bin(ms)


-----------------------------------------------------------------------------
(* Further properties of the orchestrators *)

\* C36: when an orchestrated run (LiveBot.run_loop or Backtest.run) has
\* ended, the allocation engine has received one update per closed trade of
\* the run's paper trader: its trade_count is the number of closed trades.
C36_OneUpdatePerClosedTrade ==
    cycPc \in {"stopped", "finished"} =>
        onf.trade_count
            = Len(SelectSeq(paper.trades, LAMBDA t : t.is_closed))


-----------------------------------------------------------------------------
(* Further properties of the PaperTrader *)

\* The entry fees of the trades of a ledger, and the pnl of its closed trades
RECURSIVE EntryFees(_, _)
EntryFees(pt, n) ==
    IF n = 0 THEN 0
    ELSE EntryFees(pt, n - 1) + FeeOf(pt, pt.trades[n].size_usd)

RECURSIVE RealizedPnl(_, _)
RealizedPnl(pt, n) ==
    IF n = 0 THEN 0
    ELSE RealizedPnl(pt, n - 1)
             + (IF pt.trades[n].is_closed THEN pt.trades[n].pnl[1] ELSE 0)

CapitalIdentity ==
    trader.current_capital
        = trader.initial_capital - EntryFees(trader, Len(trader.trades))
              + RealizedPnl(trader, Len(trader.trades))

\* A step that opens a position appends the trade with its entry fee and
\* takes that fee from the capital; the ledger's other trades stay as they are
OpeningTakesEntryFee ==
    Len(trader'.trades) > Len(trader.trades) =>
        LET n == Len(trader'.trades)
            t == trader'.trades[n]
        IN  /\ n = Len(trader.trades) + 1
            /\ t.fees = FeeOf(trader, t.size_usd)
            /\ ~t.is_closed
            /\ trader'.current_capital = trader.current_capital - t.fees
            /\ trader'.initial_capital = trader.initial_capital
            /\ SubSeq(trader'.trades, 1, n - 1) = trader.trades
            /\ trader'.open_positions
                   = Append(trader.open_positions, t.trade_id)

\* C37: opening a position changes the capital by exactly minus the entry
\* fee, and after any sequence of operations current_capital is
\* initial_capital minus the entry fees of all trades plus the realized pnl
\* of the closed trades.
C37_CapitalAccounting == []CapitalIdentity /\ [][OpeningTakesEntryFee]_vars

\* Two trades opened, the first closed at a loss other than its fees, the
\* second still open
C37_Witness ==
    /\ Len(trader.trades) = 2
    /\ trader.trades[1].is_closed
    /\ ~trader.trades[2].is_closed
    /\ trader.trades[1].pnl[1] # -FeeOf(trader, trader.trades[1].size_usd)
    /\ trader.current_capital
           = InitialCapital - FeeOf(trader, trader.trades[1].size_usd)
                 - FeeOf(trader, trader.trades[2].size_usd)
                 + trader.trades[1].pnl[1]


\* record_exit called with an id that is not in open_positions (a closed
\* trade's, or no trade's) returns None and gives the trader back as it is
ExitOfUnknownIdIsNoOp ==
    \A trade_id \in 1..(MaxTrades + 1), ms \in PtSnapshots :
        (\A k \in 1..Len(trader.open_positions) :
             trader.open_positions[k] # trade_id)
            => /\ record_exit_returns(trader, trade_id, ms) = NoValue
               /\ record_exit(trader, trade_id, ms) = trader

\* No step changes a closed trade, and a step that closes nothing and opens
\* nothing leaves the capital and the open positions as they are
ClosedTradeUntouched ==
    /\ \A i \in 1..Len(trader.trades) :
           trader.trades[i].is_closed
               => /\ i <= Len(trader'.trades)
                  /\ trader'.trades[i] = trader.trades[i]
    /\ trader'.trades = trader.trades
           => /\ trader'.current_capital = trader.current_capital
              /\ trader'.open_positions = trader.open_positions

\* C38: record_exit for a trade id that is not currently open returns None
\* and leaves capital, open positions and every trade record unchanged, so
\* closing a trade twice never applies its pnl or exit fee a second time.
C38_ExitOnlyOnce == []ExitOfUnknownIdIsNoOp /\ [][ClosedTradeUntouched]_vars

\* The only trade of the ledger opened and closed, nothing open
C38_Witness ==
    /\ ptSteps = 2
    /\ Len(trader.trades) = 1
    /\ trader.trades[1].is_closed
    /\ trader.open_positions = <<>>
    /\ record_exit_returns(trader, 1, CHOOSE ms \in PtSnapshots : TRUE) = NoValue
    /\ trader.current_capital
           = InitialCapital - FeeOf(trader, trader.trades[1].size_usd)
                 + trader.trades[1].pnl[1]


\* The pnl that closing the open trades of pt on ms realizes
RECURSIVE PnlOfOpen(_, _, _)
PnlOfOpen(pt, n, ms) ==
    IF n = 0 THEN 0
    ELSE PnlOfOpen(pt, n - 1, ms)
             + (IF pt.trades[n].is_closed THEN 0
                ELSE closed_trade(pt, pt.trades[n], ms).pnl[1])

\* close_all_positions on the ledger pt: every open trade is closed by one
\* record_exit and returned, the closed trades stay as they were, nothing is
\* left open
ClosesEachOnce(pt, ms) ==
    LET after == close_all_positions(pt, ms)
        returned == close_all_positions_returns(pt, ms)
    IN  /\ after.open_positions = <<>>
        /\ Len(after.trades) = Len(pt.trades)
        /\ \A i \in 1..Len(pt.trades) :
               /\ after.trades[i].is_closed
               /\ after.trades[i]
                      = IF pt.trades[i].is_closed THEN pt.trades[i]
                        ELSE closed_trade(pt, pt.trades[i], ms)
        /\ Len(returned) = Len(pt.open_positions)
        /\ \A k \in 1..Len(returned) :
               /\ returned[k].trade_id = pt.open_positions[k]
               /\ returned[k] = after.trades[TradeIndex(pt, pt.open_positions[k])]
        /\ after.current_capital
               = pt.current_capital + PnlOfOpen(pt, Len(pt.trades), ms)

\* The orchestrator's ledger, and the ledger after one of its open trades
\* has been closed
LedgersOf(pt) ==
    {pt} \cup {record_exit(pt, pt.open_positions[k], ms) :
                   k \in 1..Len(pt.open_positions), ms \in CycleSnapshots}

\* C39: close_all_positions closes every open position exactly once: it
\* returns one closed trade per open position and leaves no position open and
\* every trade of the ledger closed; a Backtest.run over a non-empty bar list
\* ends with no open position.
C39_CloseAllClosesEachOnce ==
    /\ \A pt \in LedgersOf(paper), ms \in CycleSnapshots : ClosesEachOnce(pt, ms)
    /\ (orch = "backtest" /\ cycPc = "finished" /\ cycLimit > 0)
           => /\ paper.open_positions = <<>>
              /\ \A i \in 1..Len(paper.trades) : paper.trades[i].is_closed

\* A Backtest over two bars that opened a position on each and has closed both
C39_Witness ==
    /\ orch = "backtest"
    /\ cycPc = "finished"
    /\ cycLimit = 2
    /\ Len(paper.trades) = 2
    /\ paper.trades[1].is_closed
    /\ paper.trades[2].is_closed
    /\ paper.open_positions = <<>>


\* C40: in PaperTrader.summary, total_trades is the number of closed trades
\* and every closed trade is counted as exactly one of winning or losing:
\* winning_trades + losing_trades = total_trades in every ledger state, a
\* trade with a pnl of exactly zero included, and win_rate lies in [0, 1].
C40_SummaryCountsAddUp ==
    LET s == summary(trader)
    IN  /\ s.total_trades
               = Cardinality({i \in 1..Len(trader.trades) :
                                  trader.trades[i].is_closed})
        /\ s.winning_trades + s.losing_trades = s.total_trades
        /\ win_rate(trader).num >= 0
        /\ win_rate(trader).num <= win_rate(trader).den

=============================================================================
